---- MODULE Spec2Model ----
(***************************************************************************)
(* A model of package ioc (shelakel/go-ioc): the scoped value store        *)
(* (Values), the registry with its registrations, the Container with its   *)
(* scopes, and the dependency resolver with its lifetime dispatch.         *)
(*                                                                         *)
(* Containers are numbered 1..n in the order they are created; container 1 *)
(* is the one NewContainer() returned, every other one was returned by     *)
(* Scope().  A nil pointer to a container is 0.                            *)
(***************************************************************************)
EXTENDS Integers, Sequences, FiniteSets, TLC

\* ------------------------------------------------------------------ bounds

\* The number of calls of a run that build state: Scope, and the successful
\* RegisterNamed, RegisterNamedInstance and SetNamed calls.
MaxSetup == 3
\* The number of times one registration's factory may be invoked in a run.
MaxCalls == 3
\* The number of Scope and RegisterNamed calls of a run whose factories fail
\* or resolve through the resolver they are given.
MaxNested == 2
\* The number of goroutines that call ResolveNamed next to each other.
MaxThreads == 2
\* The package variable RecursionLimit: 30 unless the program assigns it, and
\* assigned this value before the first resolve of every run here.
RecursionLimit == 3
\* The most targets one call of Resolve is given.
MaxTargets == 2

\* ------------------------------------------------------- program constants

PerContainer == 0
PerScope == 1
PerRequest == 2
\* Lifetime(6): a Lifetime that is none of the three.
UnsupportedLifetime == 6

\* ------------------------------------------------------------------ domains

\* reflect.Type identities.  typeContainer and typeFactory are the types the
\* resolver serves itself when the name is empty: the container of the
\* resolver, and the resolver.  A resolver is a container and the graph of
\* the external call it belongs to; as a value it is the number of its
\* container.
typeContainer == "Container"
typeFactory == "Factory"
Types == {"int", typeContainer, typeFactory}
Names == {"", "one"}
Keys == Types \X Names
\* Payloads of the values the callers pass in.  A value a factory makes has a
\* payload of 10 or more (see CallFactory).
Vals == {1, 2}
Containers == 1..(MaxSetup + 1)
RegIds == 1..MaxSetup
\* The interface types: IN is an empty interface (type IN interface{}), Reader
\* is io.Reader.
InterfaceTypes == {"IN", "Reader"}
\* The types a factory can return a value of, and their pointer types.  File
\* is a struct type whose pointer type has the Read method of io.Reader.
ValueTypes == {"int", "string", "File"}
PtrTo(typ) == "*" \o typ
\* The pairs <<t, i>> of a type t that implements the interface type i: every
\* type implements the empty interface, *File alone implements Reader.
Implements ==
    {<<t, "IN">> : t \in ValueTypes \cup {PtrTo(t) : t \in ValueTypes}}
        \cup {<<PtrTo("File"), "Reader">>}

\* An interface{} argument: untyped nil ("nil"), a typed nil pointer
\* ("nilptr"), or a value of type typ behind ptr levels of non-nil pointers.
Handle(k, typ, ptr, val) == [k |-> k, typ |-> typ, ptr |-> ptr, val |-> val]
NilHandle == Handle("nil", "", 0, 0)
NilPtr(typ) == Handle("nilptr", typ, 1, 0)
Val(typ, val) == Handle("val", typ, 0, val)
Ptr(typ, val) == Handle("val", typ, 1, val)
\* reflect.TypeOf of a typed handle: the type with its pointer level.
TypeOf(v) == IF v.ptr = 0 THEN v.typ ELSE PtrTo(v.typ)

\* A *reflect.Value held in a Values map; Nil is the nil pointer.
Inst(typ, val) == [typ |-> typ, val |-> val]
Nil == Inst("nil", 0)

\* CreateInstanceFn: nil ("none"), the closure of RegisterNamedInstance that
\* returns the registered value ("static"), a caller's factory that returns a
\* new value of type typ on every call ("new"), or one that returns an error
\* ("fail").
Fn(k, typ) == [k |-> k, typ |-> typ]
NoFn == Fn("none", "")

\* A *Registration; NoReg is the nil pointer.  id tells the Registration
\* objects apart (each Register... call allocates one).
Registration(id, typ, name, value, fn, lifetime) ==
    [id |-> id, Type |-> typ, Name |-> name, Value |-> value,
     CreateInstanceFn |-> fn, Lifetime |-> lifetime]
NoReg == Registration(0, "", "", NilHandle, NoFn, PerContainer)

\* The inner maps (map[string]*Registration) of the registries live on a heap:
\* the inner map a registry of container c allocates for type t is <<c, t>>.
MapIds == Containers \X Types
NoMap == <<0, "">>
EmptyNamed == [name \in Names |-> NoReg]

\* The goroutines that call ResolveNamed next to each other, one call each.
Threads == 1..MaxThreads
Thread(pc, c, typ, name, reg, at, made, inst, err) ==
    [pc |-> pc, c |-> c, typ |-> typ, name |-> name, reg |-> reg, at |-> at,
     made |-> made, inst |-> inst, err |-> err]
Idle == Thread("idle", 0, "", "", NoReg, 0, FALSE, Nil, "")

\* ---------------------------------------------------------------- variables

VARIABLES
    n,          \* the number of containers created so far
    root,       \* Container.root of each container (0: nil)
    parent,     \* Values.parent of each container's Values (0: nil)
    values,     \* Container.Values.instances of each container
    r,          \* Container.r.registrations: type -> inner map (or NoMap)
    named,      \* the heap of inner maps: name -> *Registration
    instances,  \* Container.instances.instances of each container
    calls,      \* how often the factory of each registration was invoked
    nextReg,    \* the id of the next Registration object
    nreg,       \* history: successful Register... calls per container and key
    nsets,      \* history: successful SetNamed calls
    lastSet,    \* history: the value the last successful SetNamed call of
                \* each store and key was given (0: there was none)
    got,        \* the last GetNamed call: its arguments, its error and the
                \* value it set the target to
    objs,       \* history: for every Registration object made so far, the
                \* container it was registered on (at) and its Lifetime
    ret,        \* the error the last RegisterNamed or RegisterNamedInstance
                \* call returned ("ok": nil; "": no such call yet)
    th,         \* for every goroutine that calls ResolveNamed next to others:
                \* where it is in the call (pc), the container (c), the key
                \* (typ, name), the registration it read (reg), the container
                \* whose cache it uses (at), whether it invoked the factory
                \* (made), and the instance and error it has so far
    lastCreate, \* the last call of CreateInstance made on a Registration
                \* value directly: the Registration, the error and the
                \* instance it returned
    dg,         \* a dependencyResolverGraph of its own that track is called
                \* on directly: the RecursionLimit in force (limit), the
                \* one that was in force when the graph was made (made), the
                \* values a read of RecursionLimit by the goroutine of the
                \* call can give (seen: more than one after a write that
                \* is not ordered with the read), the graph (g), the key of
                \* the last call (<<"", "">>: no call yet) and what it
                \* returned (ok; blocked: it did not return)
    run         \* one goroutine that makes a call lock by lock: the calls in
                \* progress, innermost last (stack), the locks it has taken
                \* and not released (held), the graphs of its external calls
                \* (graphs) and what the outermost call returned (out)

vars == <<n, root, parent, values, r, named, instances, calls, nextReg, nreg,
          nsets, lastSet, got, objs, ret, th, lastCreate, dg, run>>

\* ---------------------------------------------------------------- reflect.go

GetNamedSetter(v) ==
    IF v.k = "nil" THEN [err |-> "NilType", typ |-> ""]
    ELSE IF v.k = "nilptr" THEN [err |-> "NonSetNilPointer", typ |-> v.typ]
    ELSE IF v.ptr = 0 THEN [err |-> "RequirePointer", typ |-> v.typ]
    ELSE [err |-> "ok", typ |-> v.typ]

GetNamedInstance(v) ==
    IF v.k = "nil" THEN [err |-> "NilType", typ |-> "", val |-> 0]
    ELSE IF v.k = "nilptr" THEN [err |-> "NilValue", typ |-> v.typ, val |-> 0]
    ELSE [err |-> "ok", typ |-> v.typ, val |-> v.val]

GetNamedType(v) ==
    IF v.k = "nil" THEN [err |-> "NilType", typ |-> ""]
    ELSE IF v.ptr = 0 THEN [err |-> "RequirePointer", typ |-> v.typ]
    ELSE [err |-> "ok", typ |-> v.typ]

\* ----------------------------------------------------------------- values.go

\* Values.get: the local mapping only.
valuesGet(vals, c, typ, name) == vals[c][<<typ, name>>]

RECURSIVE walkParents(_, _, _, _, _)
walkParents(vals, par, p, typ, name) ==
    IF p = 0 THEN Nil
    ELSE IF valuesGet(vals, p, typ, name) # Nil
         THEN valuesGet(vals, p, typ, name)
         ELSE walkParents(vals, par, par[p], typ, name)

\* getParent without the walk: the immediate parent only.
getParentImmediate(vals, par, c, typ, name) ==
    IF par[c] = 0 THEN Nil ELSE valuesGet(vals, par[c], typ, name)

\* Values.getParent: the parent chain only.
getParent(vals, par, c, typ, name) == walkParents(vals, par, par[c], typ, name)

\* Values.set that keeps an entry the mapping already holds.
valuesSetKeepsFirst(vals, c, typ, name, instance) ==
    IF vals[c][<<typ, name>>] # Nil THEN vals
    ELSE [vals EXCEPT ![c][<<typ, name>>] = instance]

\* Values.set that writes the parent's mapping too.
valuesSetWritesParent(vals, c, typ, name, instance) ==
    [d \in Containers |->
        IF d = c \/ d = parent[c]
        THEN [vals[d] EXCEPT ![<<typ, name>>] = instance] ELSE vals[d]]

\* Values.set: the local mapping only.
valuesSet(vals, c, typ, name, instance) ==
    [vals EXCEPT ![c][<<typ, name>>] = instance]

\* ----------------------------------------------- errors.go: the registry

\* registry.get
registryGet(reg, nm, c, typ, name) ==
    IF reg[c][typ] = NoMap THEN NoReg ELSE nm[reg[c][typ]][name]

\* registry.set: writes the inner map the registry holds for typ, or
\* allocates one.  Returns the registries and the heap of inner maps.
registrySet(reg, nm, c, typ, name, registration) ==
    IF reg[c][typ] # NoMap
    THEN [r |-> reg, named |-> [nm EXCEPT ![reg[c][typ]][name] = registration]]
    ELSE [r |-> [reg EXCEPT ![c][typ] = <<c, typ>>],
          named |-> [nm EXCEPT ![<<c, typ>>] =
                                  [EmptyNamed EXCEPT ![name] = registration]]]

\* registry.getAll: the registrations of container c (in no order).
getAll(reg, nm, c) ==
    {nm[reg[c][typ]][name] :
        <<typ, name>> \in {k \in Keys : registryGet(reg, nm, c, k[1], k[2]) # NoReg}}

\* registry.clone that copies the outer map only: the new registry holds the
\* inner maps of the old one.
cloneShallow(reg, nm, c, d) == [r |-> [reg EXCEPT ![d] = reg[c]], named |-> nm]

\* registry.clone: the registry of the new container d, made from the one of
\* c.  Every inner map is copied into a new one; the *Registration values are
\* shared.
clone(reg, nm, c, d) ==
    [r |-> [reg EXCEPT ![d] = [typ \in Types |->
                IF reg[c][typ] = NoMap THEN NoMap ELSE <<d, typ>>]],
     named |-> [m \in MapIds |->
                IF m[1] = d /\ reg[c][m[2]] # NoMap
                THEN nm[reg[c][m[2]]] ELSE nm[m]]]

\* ------------------------------------------- errors.go: the registration

\* An error is its kind (err; "ok" is nil) and the kinds of the chain of its
\* Inner errors (inner), outermost first.  A call that never returns has the
\* result "blocked".

RECURSIVE resolverResolveNamed(_, _, _, _, _)

\* The other one of the two names: the key of the dependency of a factory.
Other(name) == IF name = "" THEN "one" ELSE ""

\* The call r.CreateInstanceFn(factory).  st holds what a factory can change
\* (the instance caches and the invocation counts); the resolver the factory
\* is given is the pair (c, g).  The factories:
\*   "static"  the closure of RegisterNamedInstance: returns the value;
\*   "new"     returns a value it has not returned before, 10 * id + the
\*             number of the invocation;
\*   "fail"    returns an error of its own;
\*   "nil"     returns nil, nil;
\*   "newptr"  returns a pointer to a value it has not returned before;
\*   "nilptr"  returns a nil pointer of type *typ and no error;
\*   "flaky"   "fail" on its first invocation, "new" from then on;
\*   "self"    resolves its own key through the resolver it is given and
\*             returns the value, or the error it gets;
\*   "dep"     the same with the key of the other name;
\*   "via"     resolves the unnamed Factory through the resolver it is
\*             given, resolves its own key through the Factory it got and
\*             returns the value, or the error it gets;
\*   "catch"   resolves its own key; when that fails it drops the error,
\*             resolves the key of the other name and returns that value, or
\*             the error it gets;
\*   "repeat"  resolves the key of the other name RecursionLimit times, one
\*             call after the other, and returns the last value, or the
\*             first error it gets.
\* What a factory returns that returns the result res of its resolve: the
\* value, or the error.
factoryReturns(res) ==
    IF res.err # "ok"
    THEN [st |-> res.st, g |-> res.g, err |-> res.err, inner |-> res.inner,
          v |-> NilHandle]
    ELSE [st |-> res.st, g |-> res.g, err |-> "ok", inner |-> <<>>,
          v |-> Val(res.inst.typ, res.inst.val)]

\* The "catch" factory of reg after the resolve of its own key gave own.
factoryCatches(c, reg, own) ==
    IF own.err \in {"ok", "blocked"} THEN factoryReturns(own)
    ELSE factoryReturns(resolverResolveNamed(own.st, own.g, c, Ptr(reg.Type, 0),
                                             Other(reg.Name)))

\* The "via" factory of reg after the resolve of the unnamed Factory gave f:
\* the Factory is the resolver of container f.inst.val on the graph of f.
factoryVia(reg, f) ==
    IF f.err # "ok" THEN factoryReturns(f)
    ELSE factoryReturns(resolverResolveNamed(f.st, f.g, f.inst.val,
                                             Ptr(reg.Type, 0), reg.Name))

\* The "repeat" factory of reg with k resolves still to make, after the
\* resolve before gave prev.
RECURSIVE factoryRepeats(_, _, _, _)
factoryRepeats(c, reg, k, prev) ==
    IF k = 0 \/ prev.err # "ok" THEN factoryReturns(prev)
    ELSE factoryRepeats(c, reg, k - 1,
                        resolverResolveNamed(prev.st, prev.g, c, Ptr(reg.Type, 0),
                                             Other(reg.Name)))

CallFactory(st, g, c, reg) ==
    LET st1 == [st EXCEPT !.calls[reg.id] = @ + 1]
        fn  == reg.CreateInstanceFn
        out(s, gg, err, inner, val) ==
            [st |-> s, g |-> gg, err |-> err, inner |-> inner, v |-> val]
        fresh == out(st1, g, "ok", <<>>, Val(fn.typ, 10 * reg.id + st1.calls[reg.id]))
        failed == out(st1, g, "factory error", <<>>, NilHandle)
    IN  CASE fn.k = "static" -> out(st1, g, "ok", <<>>, reg.Value)
          [] fn.k = "new" -> fresh
          [] fn.k = "fail" -> failed
          [] fn.k = "nil" -> out(st1, g, "ok", <<>>, NilHandle)
          [] fn.k = "newptr" ->
               out(st1, g, "ok", <<>>, Ptr(fn.typ, 10 * reg.id + st1.calls[reg.id]))
          [] fn.k = "nilptr" -> out(st1, g, "ok", <<>>, NilPtr(fn.typ))
          [] fn.k = "flaky" -> IF st1.calls[reg.id] = 1 THEN failed ELSE fresh
          [] fn.k = "self" ->
               factoryReturns(resolverResolveNamed(st1, g, c, Ptr(reg.Type, 0),
                                                   reg.Name))
          [] fn.k = "dep" ->
               factoryReturns(resolverResolveNamed(st1, g, c, Ptr(reg.Type, 0),
                                                   Other(reg.Name)))
          [] fn.k = "via" ->
               factoryVia(reg, resolverResolveNamed(st1, g, c, Ptr(typeFactory, 0), ""))
          [] fn.k = "catch" ->
               factoryCatches(c, reg,
                              resolverResolveNamed(st1, g, c, Ptr(reg.Type, 0),
                                                   reg.Name))
          [] fn.k = "repeat" ->
               factoryRepeats(c, reg, RecursionLimit - 1,
                              resolverResolveNamed(st1, g, c, Ptr(reg.Type, 0),
                                                   Other(reg.Name)))
          [] OTHER -> failed

\* created that asks whether the type of the value behind the pointers, and
\* not the type of the result itself, implements the declared interface.
createdChecksElem(reg, out) ==
    LET rv  == GetNamedInstance(out.v)
        res(err, inner, inst) ==
            [st |-> out.st, g |-> out.g, err |-> err, inner |-> inner,
             inst |-> inst]
    IN  IF out.err = "blocked" THEN res("blocked", <<>>, Nil)
        ELSE IF out.err # "ok"
             THEN res("CreateInstance", <<out.err>> \o out.inner, Nil)
        ELSE IF rv.err # "ok" THEN res(rv.err, <<>>, Nil)
        ELSE IF rv.typ = reg.Type THEN res("ok", <<>>, Inst(rv.typ, rv.val))
        ELSE IF reg.Type \notin InterfaceTypes
             THEN res("UnexpectedValueType", <<>>, Nil)
        ELSE IF <<rv.typ, reg.Type>> \notin Implements
             THEN res("InterfaceNotImplemented", <<>>, Nil)
        ELSE res("ok", <<>>, Inst(TypeOf(out.v), out.v.val))

\* Registration.CreateInstance after the call of the factory, which gave out:
\* the error wrapped, or the instance checked.
created(reg, out) ==
    LET rv  == GetNamedInstance(out.v)
        res(err, inner, inst) ==
            [st |-> out.st, g |-> out.g, err |-> err, inner |-> inner,
             inst |-> inst]
    IN  IF out.err = "blocked" THEN res("blocked", <<>>, Nil)
        ELSE IF out.err # "ok"
             THEN res("CreateInstance", <<out.err>> \o out.inner, Nil)
        ELSE IF rv.err # "ok" THEN res(rv.err, <<>>, Nil)
        ELSE IF rv.typ = reg.Type THEN res("ok", <<>>, Inst(rv.typ, rv.val))
        ELSE IF reg.Type \notin InterfaceTypes
             THEN res("UnexpectedValueType", <<>>, Nil)
        ELSE IF <<TypeOf(out.v), reg.Type>> \notin Implements
             THEN res("InterfaceNotImplemented", <<>>, Nil)
        ELSE res("ok", <<>>, Inst(TypeOf(out.v), out.v.val))

\* Registration.CreateInstance that reports a failed factory without the
\* error the factory returned.
CreateInstanceDropsCause(st, g, c, reg) ==
    IF reg.CreateInstanceFn.k = "none"
    THEN [st |-> st, g |-> g, err |-> "CreateInstanceFnNil", inner |-> <<>>,
          inst |-> Nil]
    ELSE LET out == CallFactory(st, g, c, reg)
             rv  == GetNamedInstance(out.v)
             res(err, inner, inst) ==
                 [st |-> out.st, g |-> out.g, err |-> err, inner |-> inner,
                  inst |-> inst]
         IN  IF out.err = "blocked" THEN res("blocked", <<>>, Nil)
             ELSE IF out.err # "ok" THEN res("CreateInstance", <<>>, Nil)
             ELSE IF rv.err # "ok" THEN res(rv.err, <<>>, Nil)
             ELSE IF rv.typ = reg.Type THEN res("ok", <<>>, Inst(rv.typ, rv.val))
             ELSE IF reg.Type \notin InterfaceTypes
                  THEN res("UnexpectedValueType", <<>>, Nil)
             ELSE IF <<TypeOf(out.v), reg.Type>> \notin Implements
                  THEN res("InterfaceNotImplemented", <<>>, Nil)
             ELSE res("ok", <<>>, Inst(TypeOf(out.v), out.v.val))

\* Registration.CreateInstance
CreateInstance(st, g, c, reg) ==
    IF reg.CreateInstanceFn.k = "none"
    THEN [st |-> st, g |-> g, err |-> "CreateInstanceFnNil", inner |-> <<>>,
          inst |-> Nil]
    ELSE created(reg, CallFactory(st, g, c, reg))

\* --------------------------------------------------- the dependency resolver

\* A graph that starts with a count of 1 for every key, as if an earlier call
\* had left its counts.
newDependencyResolverGraphUsed == [lookup |-> [k \in Keys |-> 1], locked |-> FALSE]

\* newDependencyResolverGraph: no counts, the mutex unlocked.
newDependencyResolverGraph == [lookup |-> [k \in Keys |-> 0], locked |-> FALSE]

\* track that compares the count with the limit before it adds one.
trackChecksBeforeCounting(g, typ, name) ==
    LET k == <<typ, name>> IN
    IF g.locked THEN [g |-> g, ok |-> FALSE, blocked |-> TRUE]
    ELSE IF g.lookup[k] >= RecursionLimit
    THEN [g |-> [g EXCEPT !.locked = TRUE], ok |-> FALSE, blocked |-> FALSE]
    ELSE [g |-> [g EXCEPT !.lookup[k] = @ + 1], ok |-> TRUE, blocked |-> FALSE]

\* dependencyResolverGraph.track.  A count of 0 is a missing map entry.  The
\* return on the limit leaves the mutex locked, and a call that finds the
\* mutex locked waits in Lock() for an Unlock() that no code makes (blocked).
trackAt(limit, g, typ, name) ==
    LET k == <<typ, name>> IN
    IF g.locked THEN [g |-> g, ok |-> FALSE, blocked |-> TRUE]
    ELSE IF g.lookup[k] # 0
    THEN IF g.lookup[k] + 1 >= limit
         THEN [g |-> [g EXCEPT !.locked = TRUE], ok |-> FALSE, blocked |-> FALSE]
         ELSE [g |-> [g EXCEPT !.lookup[k] = @ + 1], ok |-> TRUE, blocked |-> FALSE]
    ELSE [g |-> [g EXCEPT !.lookup[k] = 1], ok |-> TRUE, blocked |-> FALSE]

\* track under the RecursionLimit of the package.
track(g, typ, name) == trackAt(RecursionLimit, g, typ, name)

\* What the lifetime routines return when track did not return true.
untracked(st, t) ==
    [st |-> st, g |-> t.g,
     err |-> IF t.blocked THEN "blocked" ELSE "ResolveInfiniteRecursion",
     inner |-> <<>>, inst |-> Nil]

\* resolveSingletonLifetime after CreateInstance, which gave ci: the error
\* returned, or the instance set in the cache of c and returned.
stored(c, reg, ci) ==
    IF ci.err # "ok" THEN ci
    ELSE [ci EXCEPT !.st.instances =
              valuesSet(ci.st.instances, c, reg.Type, reg.Name, ci.inst)]

\* resolveSingletonLifetime that does not store the instance it creates.
resolveSingletonLifetimeNoStore(st, g, c, reg) ==
    LET k == <<reg.Type, reg.Name>> IN
    IF st.instances[c][k] # Nil
    THEN [st |-> st, g |-> g, err |-> "ok", inner |-> <<>>,
          inst |-> st.instances[c][k]]
    ELSE LET t == track(g, reg.Type, reg.Name) IN
         IF ~t.ok
         THEN untracked(st, t)
         ELSE CreateInstance(st, t.g, c, reg)

\* resolveSingletonLifetime that does not look into the cache first.
resolveSingletonLifetimeNoLookup(st, g, c, reg) ==
    LET t == track(g, reg.Type, reg.Name) IN
    IF ~t.ok
    THEN untracked(st, t)
    ELSE LET ci == CreateInstance(st, t.g, c, reg) IN
         IF ci.err # "ok" THEN ci
         ELSE [ci EXCEPT !.st.instances =
                   valuesSet(ci.st.instances, c, reg.Type, reg.Name, ci.inst)]

\* resolveSingletonLifetime that stores the zero value of the type when
\* CreateInstance fails.
resolveSingletonLifetimeStoresFailure(st, g, c, reg) ==
    LET k == <<reg.Type, reg.Name>> IN
    IF st.instances[c][k] # Nil
    THEN [st |-> st, g |-> g, err |-> "ok", inner |-> <<>>,
          inst |-> st.instances[c][k]]
    ELSE LET t == track(g, reg.Type, reg.Name) IN
         IF ~t.ok
         THEN untracked(st, t)
         ELSE LET ci == CreateInstance(st, t.g, c, reg) IN
              IF ci.err = "blocked" THEN ci
              ELSE [ci EXCEPT !.st.instances =
                        valuesSet(ci.st.instances, c, reg.Type, reg.Name,
                                  IF ci.err = "ok" THEN ci.inst
                                  ELSE Inst(reg.Type, 0))]

\* resolveSingletonLifetime that calls track before it looks into the cache.
resolveSingletonLifetimeTracksFirst(st, g, c, reg) ==
    LET k == <<reg.Type, reg.Name>>
        t == track(g, reg.Type, reg.Name)
    IN  IF ~t.ok THEN untracked(st, t)
        ELSE IF st.instances[c][k] # Nil
        THEN [st |-> st, g |-> t.g, err |-> "ok", inner |-> <<>>,
              inst |-> st.instances[c][k]]
        ELSE stored(c, reg, CreateInstance(st, t.g, c, reg))

\* dependencyResolver.resolveSingletonLifetime, on the resolver (c, g).
resolveSingletonLifetime(st, g, c, reg) ==
    LET k == <<reg.Type, reg.Name>> IN
    IF st.instances[c][k] # Nil
    THEN [st |-> st, g |-> g, err |-> "ok", inner |-> <<>>,
          inst |-> st.instances[c][k]]
    ELSE LET t == track(g, reg.Type, reg.Name) IN
         IF ~t.ok
         THEN untracked(st, t)
         ELSE stored(c, reg, CreateInstance(st, t.g, c, reg))

\* resolvePerRequestLifetime that looks into the cache and stores the instance,
\* as the singleton lifetimes do.
resolvePerRequestLifetimeCached(st, g, c, reg) ==
    resolveSingletonLifetime(st, g, c, reg)

\* dependencyResolver.resolvePerRequestLifetime, on the resolver (c, g).
resolvePerRequestLifetime(st, g, c, reg) ==
    LET t == track(g, reg.Type, reg.Name) IN
    IF ~t.ok
    THEN untracked(st, t)
    ELSE CreateInstance(st, t.g, c, reg)

\* dependencyResolver.ResolveNamed that serves PerContainer on the current
\* resolver instead of the root's.
resolverResolveNamedOnCurrent(st, g, c, v, name) ==
    LET setter == GetNamedSetter(v)
        typ == setter.typ
        registration == registryGet(r, named, c, typ, name)
        res(err, inst) ==
            [st |-> st, g |-> g, err |-> err, inner |-> <<>>, inst |-> inst]
    IN  IF setter.err # "ok" THEN res(setter.err, Nil)
        ELSE IF name = "" /\ typ \in {typeContainer, typeFactory}
             THEN res("ok", Inst(typ, c))
        ELSE IF registration = NoReg
             THEN IF valuesGet(values, c, typ, name) # Nil
                  THEN res("ok", valuesGet(values, c, typ, name))
                  ELSE res("UnresolvedDependency", Nil)
        ELSE IF registration.Lifetime \in {PerContainer, PerScope}
             THEN resolveSingletonLifetime(st, g, c, registration)
        ELSE IF registration.Lifetime = PerRequest
             THEN resolvePerRequestLifetime(st, g, c, registration)
        ELSE res("UnsupportedLifetime", Nil)

\* dependencyResolver.ResolveNamed that serves PerScope on the root's resolver,
\* as it does PerContainer.
resolverResolveNamedScopeOnRoot(st, g, c, v, name) ==
    LET setter == GetNamedSetter(v)
        typ == setter.typ
        registration == registryGet(r, named, c, typ, name)
        resolver1 == IF root[c] # 0 THEN root[c] ELSE c
        res(err, inst) ==
            [st |-> st, g |-> g, err |-> err, inner |-> <<>>, inst |-> inst]
    IN  IF setter.err # "ok" THEN res(setter.err, Nil)
        ELSE IF name = "" /\ typ \in {typeContainer, typeFactory}
             THEN res("ok", Inst(typ, c))
        ELSE IF registration = NoReg
             THEN IF valuesGet(values, c, typ, name) # Nil
                  THEN res("ok", valuesGet(values, c, typ, name))
                  ELSE res("UnresolvedDependency", Nil)
        ELSE IF registration.Lifetime \in {PerContainer, PerScope}
             THEN resolveSingletonLifetime(st, g, resolver1, registration)
        ELSE IF registration.Lifetime = PerRequest
             THEN resolvePerRequestLifetime(st, g, c, registration)
        ELSE res("UnsupportedLifetime", Nil)

\* dependencyResolver.ResolveNamed that, without a registration, looks into the
\* instance cache of the container before it looks into its values.
resolverResolveNamedCacheFirst(st, g, c, v, name) ==
    LET setter == GetNamedSetter(v)
        typ == setter.typ
        registration == registryGet(r, named, c, typ, name)
        resolver1 == IF root[c] # 0 THEN root[c] ELSE c
        res(err, inst) ==
            [st |-> st, g |-> g, err |-> err, inner |-> <<>>, inst |-> inst]
    IN  IF setter.err # "ok" THEN res(setter.err, Nil)
        ELSE IF name = "" /\ typ \in {typeContainer, typeFactory}
             THEN res("ok", Inst(typ, c))
        ELSE IF registration = NoReg
             THEN IF st.instances[c][<<typ, name>>] # Nil
                  THEN res("ok", st.instances[c][<<typ, name>>])
                  ELSE IF valuesGet(values, c, typ, name) # Nil
                  THEN res("ok", valuesGet(values, c, typ, name))
                  ELSE res("UnresolvedDependency", Nil)
        ELSE IF registration.Lifetime = PerContainer
             THEN resolveSingletonLifetime(st, g, resolver1, registration)
        ELSE IF registration.Lifetime = PerScope
             THEN resolveSingletonLifetime(st, g, c, registration)
        ELSE IF registration.Lifetime = PerRequest
             THEN resolvePerRequestLifetime(st, g, c, registration)
        ELSE res("UnsupportedLifetime", Nil)

\* ResolveNamed that serves the unnamed Container and Factory only when the
\* registry and the value store have nothing for them.
resolverResolveNamedRegistryFirst(st, g, c, v, name) ==
    LET setter == GetNamedSetter(v)
        typ == setter.typ
        registration == registryGet(r, named, c, typ, name)
        resolver1 == IF root[c] # 0 THEN root[c] ELSE c
        res(err, inst) ==
            [st |-> st, g |-> g, err |-> err, inner |-> <<>>, inst |-> inst]
    IN  IF setter.err # "ok" THEN res(setter.err, Nil)
        ELSE IF registration = NoReg
             THEN IF valuesGet(values, c, typ, name) # Nil
                  THEN res("ok", valuesGet(values, c, typ, name))
                  ELSE IF name = "" /\ typ \in {typeContainer, typeFactory}
                  THEN res("ok", Inst(typ, c))
                  ELSE res("UnresolvedDependency", Nil)
        ELSE IF registration.Lifetime = PerContainer
             THEN resolveSingletonLifetime(st, g, resolver1, registration)
        ELSE IF registration.Lifetime = PerScope
             THEN resolveSingletonLifetime(st, g, c, registration)
        ELSE IF registration.Lifetime = PerRequest
             THEN resolvePerRequestLifetime(st, g, c, registration)
        ELSE res("UnsupportedLifetime", Nil)

\* dependencyResolver.ResolveNamed, on the resolver (c, g): the new caches and
\* counts, the error, and the value the target is set to.
resolverResolveNamed(st, g, c, v, name) ==
    LET setter == GetNamedSetter(v)
        typ == setter.typ
        registration == registryGet(r, named, c, typ, name)
        resolver1 == IF root[c] # 0 THEN root[c] ELSE c
        res(err, inst) ==
            [st |-> st, g |-> g, err |-> err, inner |-> <<>>, inst |-> inst]
    IN  IF setter.err # "ok" THEN res(setter.err, Nil)
        ELSE IF name = "" /\ typ \in {typeContainer, typeFactory}
             THEN res("ok", Inst(typ, c))
        ELSE IF registration = NoReg
             THEN IF valuesGet(values, c, typ, name) # Nil
                  THEN res("ok", valuesGet(values, c, typ, name))
                  ELSE res("UnresolvedDependency", Nil)
        ELSE IF registration.Lifetime = PerContainer
             THEN resolveSingletonLifetime(st, g, resolver1, registration)
        ELSE IF registration.Lifetime = PerScope
             THEN resolveSingletonLifetime(st, g, c, registration)
        ELSE IF registration.Lifetime = PerRequest
             THEN resolvePerRequestLifetime(st, g, c, registration)
        ELSE res("UnsupportedLifetime", Nil)

\* -------------------------------------------------------------------- Init

\* NewContainer(): container 1, with an empty value store, registry and cache.
Init ==
    /\ n = 1
    /\ root = [c \in Containers |-> 0]
    /\ parent = [c \in Containers |-> 0]
    /\ values = [c \in Containers |-> [k \in Keys |-> Nil]]
    /\ r = [c \in Containers |-> [typ \in Types |-> NoMap]]
    /\ named = [m \in MapIds |-> EmptyNamed]
    /\ instances = [c \in Containers |-> [k \in Keys |-> Nil]]
    /\ calls = [q \in RegIds |-> 0]
    /\ nextReg = 1
    /\ nreg = [c \in Containers |-> [k \in Keys |-> 0]]
    /\ nsets = 0
    /\ lastSet = [c \in Containers |-> [k \in Keys |-> 0]]
    /\ got = [c |-> 0, typ |-> "", name |-> "", err |-> "", val |-> 0]
    /\ objs = [q \in RegIds |-> [at |-> 0, Lifetime |-> 0]]
    /\ ret = ""
    /\ th = [t \in Threads |-> Idle]
    /\ lastCreate = [reg |-> NoReg, err |-> "", inst |-> Nil]
    /\ dg = [limit |-> RecursionLimit, made |-> RecursionLimit,
             seen |-> {RecursionLimit}, g |-> newDependencyResolverGraph,
             key |-> <<"", "">>, ok |-> FALSE, blocked |-> FALSE]
    /\ run = [stack |-> <<>>, held |-> {}, graphs |-> <<>>,
              out |-> [op |-> "", inst |-> Nil, err |-> ""]]

\* ---------------------------------------------------------------- container

\* Scope that gives the new container the entries of the instance cache of
\* the container it is called on.
ScopeCopiesCache(c) ==
    LET d == n + 1
        cl == clone(r, named, c, d)
    IN  /\ n' = d
        /\ root' = [root EXCEPT ![d] = IF root[c] # 0 THEN root[c] ELSE c]
        /\ parent' = [parent EXCEPT ![d] = c]
        /\ r' = cl.r
        /\ named' = cl.named
        /\ instances' = [instances EXCEPT ![d] = instances[c]]
        /\ UNCHANGED <<values, calls, nextReg, nreg, nsets, lastSet,
                       got, th, lastCreate, run, dg, objs, ret>>

\* Scope that makes the container it is called on the root of the new one.
ScopeRootIsParent(c) ==
    LET d == n + 1
        cl == clone(r, named, c, d)
    IN  /\ n' = d
        /\ root' = [root EXCEPT ![d] = c]
        /\ parent' = [parent EXCEPT ![d] = c]
        /\ r' = cl.r
        /\ named' = cl.named
        /\ UNCHANGED <<values, instances, calls, nextReg, nreg, nsets, lastSet,
                       got, th, lastCreate, run, dg, objs, ret>>

\* Container.Scope on container c: the new container is n + 1.
Scope(c) ==
    LET d == n + 1
        cl == clone(r, named, c, d)
    IN  /\ n' = d
        /\ root' = [root EXCEPT ![d] = IF root[c] # 0 THEN root[c] ELSE c]
        /\ parent' = [parent EXCEPT ![d] = c]
        /\ r' = cl.r
        /\ named' = cl.named
        /\ UNCHANGED <<values, instances, calls, nextReg, nreg, nsets, lastSet, got, th, lastCreate, run, dg,
                       objs, ret>>

\* RegisterNamed that checks the lifetime after it has stored the registration.
RegisterNamedChecksLifetimeLast(c, createInstance, implType, name, lifetime) ==
    LET t == GetNamedType(implType)
        registration == Registration(nextReg, t.typ, name, NilHandle,
                                     createInstance, lifetime)
        set == registrySet(r, named, c, t.typ, name, registration)
        fails(err) == /\ UNCHANGED <<r, named, nextReg, nreg, objs>>
                      /\ ret' = err
    IN  /\ IF t.err # "ok" THEN fails(t.err)
           ELSE IF createInstance.k = "none" THEN fails("CreateInstanceFnNil")
           ELSE /\ r' = set.r
                /\ named' = set.named
                /\ nextReg' = nextReg + 1
                /\ nreg' = [nreg EXCEPT ![c][<<t.typ, name>>] = @ + 1]
                /\ objs' = [objs EXCEPT ![nextReg] =
                                      [at |-> c, Lifetime |-> registration.Lifetime]]
                /\ ret' = IF lifetime \notin {PerContainer, PerScope, PerRequest}
                          THEN "UnsupportedLifetime" ELSE "ok"
        /\ UNCHANGED <<n, root, parent, values, instances, calls, nsets, lastSet, got, th, lastCreate, run, dg>>

\* Container.RegisterNamed(createInstance, implType, name, lifetime) on c.
RegisterNamed(c, createInstance, implType, name, lifetime) ==
    LET t == GetNamedType(implType)
        registration == Registration(nextReg, t.typ, name, NilHandle,
                                     createInstance, lifetime)
        set == registrySet(r, named, c, t.typ, name, registration)
        fails(err) == /\ UNCHANGED <<r, named, nextReg, nreg, objs>>
                      /\ ret' = err
    IN  /\ IF t.err # "ok" THEN fails(t.err)
           ELSE IF createInstance.k = "none" THEN fails("CreateInstanceFnNil")
           ELSE IF lifetime \notin {PerContainer, PerScope, PerRequest}
                THEN fails("UnsupportedLifetime")
           ELSE /\ r' = set.r
                /\ named' = set.named
                /\ nextReg' = nextReg + 1
                /\ nreg' = [nreg EXCEPT ![c][<<t.typ, name>>] = @ + 1]
                /\ objs' = [objs EXCEPT ![nextReg] =
                                      [at |-> c, Lifetime |-> registration.Lifetime]]
                /\ ret' = "ok"
        /\ UNCHANGED <<n, root, parent, values, instances, calls, nsets, lastSet, got, th, lastCreate, run, dg>>

\* RegisterNamedInstance that stores the instance in the cache of c itself.
RegisterNamedInstanceOwnCache(c, v, name) ==
    LET instance == GetNamedInstance(v)
        typ == instance.typ
        registration == Registration(nextReg, typ, name, v, Fn("static", typ),
                                     PerContainer)
        set == registrySet(r, named, c, typ, name, registration)
    IN  /\ IF instance.err # "ok"
           THEN /\ UNCHANGED <<r, named, instances, nextReg, nreg, objs>>
                /\ ret' = instance.err
           ELSE /\ r' = set.r
                /\ named' = set.named
                /\ instances' = valuesSet(instances, c, typ, name,
                                          Inst(typ, instance.val))
                /\ nextReg' = nextReg + 1
                /\ nreg' = [nreg EXCEPT ![c][<<typ, name>>] = @ + 1]
                /\ objs' = [objs EXCEPT ![nextReg] =
                                      [at |-> c, Lifetime |-> registration.Lifetime]]
                /\ ret' = "ok"
        /\ UNCHANGED <<n, root, parent, values, calls, nsets, lastSet, got, th, lastCreate, run, dg>>

\* Container.RegisterNamedInstance(v, name) on c.
RegisterNamedInstance(c, v, name) ==
    LET instance == GetNamedInstance(v)
        typ == instance.typ
        registration == Registration(nextReg, typ, name, v, Fn("static", typ),
                                     PerContainer)
        set == registrySet(r, named, c, typ, name, registration)
        root1 == IF root[c] = 0 THEN c ELSE root[c]
    IN  /\ IF instance.err # "ok"
           THEN /\ UNCHANGED <<r, named, instances, nextReg, nreg, objs>>
                /\ ret' = instance.err
           ELSE /\ r' = set.r
                /\ named' = set.named
                /\ instances' = valuesSet(instances, root1, typ, name,
                                          Inst(typ, instance.val))
                /\ nextReg' = nextReg + 1
                /\ nreg' = [nreg EXCEPT ![c][<<typ, name>>] = @ + 1]
                /\ objs' = [objs EXCEPT ![nextReg] =
                                      [at |-> c, Lifetime |-> registration.Lifetime]]
                /\ ret' = "ok"
        /\ UNCHANGED <<n, root, parent, values, calls, nsets, lastSet, got, th, lastCreate, run, dg>>

\* What Container.ResolveNamed(v, name) does on c, on a new resolver with a
\* new graph: the new caches and counts, the error, and the value the target
\* is set to.
resolve(c, v, name) ==
    resolverResolveNamed([instances |-> instances, calls |-> calls],
                         newDependencyResolverGraph, c, v, name)

\* Container.ResolveNamed(v, name) on c.
ResolveNamed(c, v, name) ==
    LET res == resolve(c, v, name)
    IN  /\ instances' = res.st.instances
        /\ calls' = res.st.calls
        /\ UNCHANGED <<n, root, parent, values, r, named, nextReg, nreg, nsets,
                       lastSet, got, th, lastCreate, run, dg, objs, ret>>

\* One round of the loop of Resolve: acc is what the rounds before left (the
\* caches and counts, the error, the instances assigned to the targets so
\* far), res the result of factory.ResolveNamed(instance, "").
resolveRound(acc, res) ==
    [st |-> res.st, err |-> res.err, inner |-> res.inner,
     set |-> IF res.err = "ok" THEN Append(acc.set, res.inst) ELSE acc.set]

\* Resolve that goes on with the next target after an error, and returns the
\* error of the last target.
RECURSIVE ResolveFromGoesOn(_, _, _, _)
ResolveFromGoesOn(acc, c, vs, i) ==
    IF i > Len(vs) \/ acc.err = "blocked" THEN acc
    ELSE ResolveFromGoesOn(
             resolveRound(acc, resolverResolveNamed(
                 acc.st, newDependencyResolverGraph, c, vs[i], "")),
             c, vs, i + 1)

\* The loop of Resolve(factory, instances...) from target i on, with container
\* c as the factory: every factory.ResolveNamed is a Container.ResolveNamed,
\* on a new resolver with a new graph.  A call that does not return
\* ("blocked") ends the loop as an error does.
RECURSIVE ResolveFrom(_, _, _, _)
ResolveFrom(acc, c, vs, i) ==
    IF i > Len(vs) \/ acc.err # "ok" THEN acc
    ELSE ResolveFrom(
             resolveRound(acc, resolverResolveNamed(
                 acc.st, newDependencyResolverGraph, c, vs[i], "")),
             c, vs, i + 1)

\* What Resolve(c, vs...) does: the new caches and counts, the error, and the
\* instances the targets were set to, in the order of the targets.
resolveEach(c, vs) ==
    ResolveFrom([st |-> [instances |-> instances, calls |-> calls],
                 err |-> "ok", inner |-> <<>>, set |-> <<>>], c, vs, 1)

\* Resolve(c, vs...)
Resolve(c, vs) ==
    LET res == resolveEach(c, vs)
    IN  /\ instances' = res.st.instances
        /\ calls' = res.st.calls
        /\ UNCHANGED <<n, root, parent, values, r, named, nextReg, nreg, nsets,
                       lastSet, got, objs, ret, th, lastCreate, run, dg>>

\* RecursionLimit = limit, followed by newDependencyResolverGraph(): the graph
\* of a new external call, under a limit the program has set.
NewGraph(limit) ==
    /\ dg' = [limit |-> limit, made |-> limit, seen |-> {limit},
              g |-> newDependencyResolverGraph,
              key |-> <<"", "">>, ok |-> FALSE, blocked |-> FALSE]
    /\ UNCHANGED <<n, root, parent, values, r, named, instances, calls,
                   nextReg, nreg, nsets, lastSet, got, objs, ret, th,
                   lastCreate, run>>

\* RecursionLimit = limit while the call that made the graph is in flight:
\* by the goroutine of the call (a factory), or by another goroutine
\* (racing), whose write no synchronisation orders with the reads in track.
SetLimit(limit, racing) ==
    /\ limit # dg.limit
    /\ dg' = [dg EXCEPT !.limit = limit,
                        !.seen = IF racing THEN dg.seen \cup {limit} ELSE {limit}]
    /\ UNCHANGED <<n, root, parent, values, r, named, instances, calls,
                   nextReg, nreg, nsets, lastSet, got, objs, ret, th,
                   lastCreate, run>>

\* The call of track reads RecursionLimit: the mutex is free and the key has
\* a count.
trackReads(g, typ, name) == ~g.locked /\ g.lookup[<<typ, name>>] # 0

\* g.track(typ, name) that compares with the RecursionLimit that was in
\* force when the graph was made.
TrackUsesLimitAtCreation(typ, name) ==
    LET t == trackAt(dg.made, dg.g, typ, name)
    IN  /\ dg' = [dg EXCEPT !.g = t.g, !.key = <<typ, name>>,
                            !.ok = t.ok, !.blocked = t.blocked]
        /\ UNCHANGED <<n, root, parent, values, r, named, instances, calls,
                       nextReg, nreg, nsets, lastSet, got, objs, ret, th,
                       lastCreate, run>>

\* g.track(typ, name) on that graph.  The read of RecursionLimit gives one of
\* the values the goroutine can see; once it has given the last one written,
\* no later read gives an older one.
Track(typ, name) ==
    \E lim \in dg.seen :
        LET t == trackAt(lim, dg.g, typ, name)
        IN  /\ dg' = [limit |-> dg.limit, made |-> dg.made,
                      seen |-> IF trackReads(dg.g, typ, name) /\ lim = dg.limit
                               THEN {dg.limit} ELSE dg.seen,
                      g |-> t.g, key |-> <<typ, name>>,
                      ok |-> t.ok, blocked |-> t.blocked]
            /\ UNCHANGED <<n, root, parent, values, r, named, instances, calls,
                           nextReg, nreg, nsets, lastSet, got, objs, ret, th,
                           lastCreate, run>>

\* r.CreateInstance(factory) on a Registration value r the caller made, with
\* declared type typ and factory fn; the Factory passed is the resolver of the
\* root container.
CreateInstanceCall(fn, typ) ==
    LET reg == Registration(1, typ, "", NilHandle, fn, PerRequest)
        res == CreateInstance([instances |-> instances, calls |-> calls],
                              newDependencyResolverGraph, 1, reg)
    IN  /\ calls' = res.st.calls
        /\ lastCreate' = [reg |-> reg, err |-> res.err, inst |-> res.inst]
        /\ UNCHANGED <<n, root, parent, values, r, named, instances, nextReg,
                       nreg, nsets, lastSet, got, objs, ret, th, dg, run>>

\* ------------------------------------------- ResolveNamed, step by step

\* Container.ResolveNamed(v, name) on c by goroutine t, up to the end of
\* registry.get: the target is checked, the reserved type is served, and the
\* registration is read under the read lock of the registry.
ResolveNamedGet(t, c, v, name) ==
    LET setter == GetNamedSetter(v)
        typ == setter.typ
        registration == registryGet(r, named, c, typ, name)
        at == IF registration.Lifetime = PerContainer /\ root[c] # 0
              THEN root[c] ELSE c
        done(inst, err) == Thread("done", c, typ, name, NoReg, c, FALSE, inst, err)
    IN  /\ th[t].pc = "idle"
        /\ th' = [th EXCEPT ![t] =
                 IF setter.err # "ok" THEN done(Nil, setter.err)
                 ELSE IF name = "" /\ typ \in {typeContainer, typeFactory}
                      THEN done(Inst(typ, c), "ok")
                 ELSE IF registration # NoReg
                         /\ registration.Lifetime \notin {PerContainer, PerScope, PerRequest}
                      THEN Thread("done", c, typ, name, registration, c, FALSE, Nil,
                                  "UnsupportedLifetime")
                 ELSE Thread(IF registration # NoReg /\ registration.Lifetime = PerRequest
                             THEN "create" ELSE "lookup",
                             c, typ, name, registration, at, FALSE, Nil, "")]
        /\ UNCHANGED <<n, root, parent, values, r, named, instances, calls, nextReg,
                       nreg, nsets, lastSet, got, objs, ret, lastCreate, run, dg>>

\* The next critical section of goroutine t: Values.get on the value store of
\* the container when there is no registration, else Values.get on the
\* instance cache (resolveSingletonLifetime, before track).
ResolveNamedLookup(t) ==
    LET s == th[t]
    IN  /\ s.pc = "lookup"
        /\ th' = [th EXCEPT ![t] =
                 IF s.reg = NoReg
                 THEN IF valuesGet(values, s.c, s.typ, s.name) # Nil
                      THEN [s EXCEPT !.pc = "done", !.err = "ok",
                                     !.inst = valuesGet(values, s.c, s.typ, s.name)]
                      ELSE [s EXCEPT !.pc = "done", !.err = "UnresolvedDependency"]
                 ELSE IF instances[s.at][<<s.typ, s.name>>] # Nil
                      THEN [s EXCEPT !.pc = "done", !.err = "ok",
                                     !.inst = instances[s.at][<<s.typ, s.name>>]]
                      ELSE [s EXCEPT !.pc = "create"]]
        /\ UNCHANGED <<n, root, parent, values, r, named, instances, calls, nextReg,
                       nreg, nsets, lastSet, got, objs, ret, lastCreate, run, dg>>

\* What goroutine t does with the result ci of CreateInstance: it returns the
\* error, returns the PerRequest instance, or goes on to store the instance.
createdBy(t, ci) ==
    LET s == th[t]
    IN  /\ instances' = ci.st.instances
        /\ calls' = ci.st.calls
        /\ th' = [th EXCEPT ![t] =
                 IF ci.err # "ok"
                 THEN [s EXCEPT !.pc = "done", !.made = TRUE, !.err = ci.err]
                 ELSE IF s.reg.Lifetime = PerRequest
                      THEN [s EXCEPT !.pc = "done", !.made = TRUE, !.err = "ok",
                                     !.inst = ci.inst]
                 ELSE [s EXCEPT !.pc = "store", !.made = TRUE, !.inst = ci.inst]]

\* track on the graph of the call, which no other goroutine has, and
\* Registration.CreateInstance, outside every lock of the cache.
ResolveNamedCreate(t) ==
    LET s == th[t]
        tr == track(newDependencyResolverGraph, s.typ, s.name)
    IN  /\ s.pc = "create"
        /\ createdBy(t, CreateInstance([instances |-> instances, calls |-> calls],
                                       tr.g, s.at, s.reg))
        /\ UNCHANGED <<n, root, parent, values, r, named, nextReg, nreg, nsets,
                       lastSet, got, objs, ret, lastCreate, run, dg>>

\* Values.set on the instance cache (resolveSingletonLifetime, after
\* CreateInstance), and the return of the instance.
ResolveNamedStore(t) ==
    LET s == th[t]
    IN  /\ s.pc = "store"
        /\ instances' = valuesSet(instances, s.at, s.typ, s.name, s.inst)
        /\ th' = [th EXCEPT ![t] = [s EXCEPT !.pc = "done", !.err = "ok"]]
        /\ UNCHANGED <<n, root, parent, values, r, named, calls, nextReg, nreg,
                       nsets, lastSet, got, objs, ret, lastCreate, run, dg>>

\* ------------------------------------------------------------------- values

\* Values.SetNamed(v, name) on the value store of container c.
SetNamed(c, v, name) ==
    LET instance == GetNamedInstance(v) IN
    /\ IF instance.err # "ok"
       THEN UNCHANGED <<values, nsets, lastSet>>
       ELSE /\ values' = valuesSet(values, c, instance.typ, name,
                                   Inst(instance.typ, instance.val))
            /\ nsets' = nsets + 1
            /\ lastSet' = [lastSet EXCEPT ![c][<<v.typ, name>>] = v.val]
    /\ UNCHANGED <<n, root, parent, r, named, instances, calls, nextReg, nreg, got, th, lastCreate, run, dg,
                   objs, ret>>

\* What Values.GetNamed(v, name) returns on the value store of container c,
\* and the value it sets the target to.
getNamed(c, v, name) ==
    LET setter == GetNamedSetter(v)
        typ == setter.typ
        own == valuesGet(values, c, typ, name)
        anc == getParent(values, parent, c, typ, name)
    IN  IF setter.err # "ok" THEN [err |-> setter.err, inst |-> Nil]
        ELSE IF own # Nil THEN [err |-> "ok", inst |-> own]
        ELSE IF anc # Nil THEN [err |-> "ok", inst |-> anc]
        ELSE [err |-> "InstanceNotFound", inst |-> Nil]

\* Values.GetNamed(v, name) on the value store of container c.
GetNamed(c, v, name) ==
    /\ got' = [c |-> c, typ |-> GetNamedSetter(v).typ, name |-> name,
               err |-> getNamed(c, v, name).err,
               val |-> getNamed(c, v, name).inst.val]
    /\ UNCHANGED <<n, root, parent, values, r, named, instances, calls,
                   nextReg, nreg, nsets, lastSet, objs, ret, th, lastCreate, run, dg>>


\* ------------------------------------------------------------- the inputs

\* The values given to RegisterNamedInstance and SetNamed: ints, and a
\* pointer to an int.
InstanceArgs == {Val("int", val) : val \in Vals} \cup {Ptr("int", 1)}

\* The type markers given to RegisterNamed: (*int)(nil).
TypeArgs == {NilPtr("int")}

\* The factories given to RegisterNamed: one that returns a new int.
FactoryArgs == {Fn("new", "int")}

LifetimeArgs == {PerContainer, PerScope, PerRequest}

\* The targets given to ResolveNamed and GetNamed: &v, with var v int.
TargetArgs == {Ptr("int", 0)}

\* The calls that build state so far.
nsetup == (n - 1) + (nextReg - 1) + nsets

CallsBounded == \A q \in RegIds : calls[q] <= MaxCalls

\* --------------------------------------------------------------------- Next

Next ==
    \/ \E c \in 1..n : nsetup < MaxSetup /\ Scope(c)
    \/ \E c \in 1..n, fn \in FactoryArgs, t \in TypeArgs, name \in Names,
          lifetime \in LifetimeArgs :
          nsetup < MaxSetup /\ RegisterNamed(c, fn, t, name, lifetime)
    \/ \E c \in 1..n, v \in InstanceArgs, name \in Names :
          nsetup < MaxSetup /\ RegisterNamedInstance(c, v, name)
    \/ \E c \in 1..n, v \in TargetArgs, name \in Names :
          ResolveNamed(c, v, name) /\ CallsBounded'
    \/ \E c \in 1..n, v \in InstanceArgs, name \in Names :
          nsetup < MaxSetup /\ SetNamed(c, v, name)

Spec == Init /\ [][Next]_vars

\* The value stores alone: scopes, SetNamed and GetNamed.
NextValues ==
    \/ \E c \in 1..n : nsetup < MaxSetup /\ Scope(c)
    \/ \E c \in 1..n, v \in InstanceArgs, name \in Names :
          nsetup < MaxSetup /\ SetNamed(c, v, name)
    \/ \E c \in 1..n, v \in TargetArgs, name \in Names : GetNamed(c, v, name)

SpecValues == Init /\ [][NextValues]_vars

\* The factory invocations so far.
RECURSIVE ncallsUpTo(_)
ncallsUpTo(q) == IF q = 0 THEN 0 ELSE calls[q] + ncallsUpTo(q - 1)
ncalls == ncallsUpTo(MaxSetup)

\* An external ResolveNamed may invoke several factories, each several times;
\* a run goes on resolving while there were fewer than MaxCalls invocations.
NestedCallsBounded == ncalls < MaxCalls \/ calls' = calls

\* Factories that resolve through the resolver they are given: one resolves
\* its own key and returns what it gets, one handles the error of that resolve
\* and resolves the other name, one returns a new int.
RecursionFactoryArgs == {Fn(k, "int") : k \in {"self", "catch", "new"}}

NextRecursion ==
    \/ \E c \in 1..n : nsetup < MaxNested /\ Scope(c)
    \/ \E c \in 1..n, fn \in RecursionFactoryArgs, t \in TypeArgs, name \in Names,
          lifetime \in LifetimeArgs :
          nsetup < MaxNested /\ RegisterNamed(c, fn, t, name, lifetime)
    \/ \E c \in 1..n, v \in TargetArgs, name \in Names :
          ResolveNamed(c, v, name) /\ NestedCallsBounded

SpecRecursion == Init /\ [][NextRecursion]_vars

\* Factories that fail: one returns an error, one returns nil, one returns a
\* string for an int, one fails on its first invocation only, one returns what
\* resolving the other name gives.
FailureFactoryArgs ==
    {Fn(k, "int") : k \in {"fail", "nil", "flaky", "dep"}} \cup {Fn("new", "string")}

NextFailure ==
    \/ \E c \in 1..n : nsetup < MaxNested /\ Scope(c)
    \/ \E c \in 1..n, fn \in FailureFactoryArgs, t \in TypeArgs, name \in Names,
          lifetime \in LifetimeArgs :
          nsetup < MaxNested /\ RegisterNamed(c, fn, t, name, lifetime)
    \/ \E c \in 1..n, v \in TargetArgs, name \in Names :
          ResolveNamed(c, v, name) /\ NestedCallsBounded

SpecFailure == Init /\ [][NextFailure]_vars

\* Goroutines that call ResolveNamed next to each other, on containers set up
\* with Scope and RegisterNamed.
NextRace ==
    \/ \E c \in 1..n : nsetup < MaxNested /\ Scope(c)
    \/ \E c \in 1..n, fn \in FactoryArgs, t \in TypeArgs, name \in Names,
          lifetime \in LifetimeArgs :
          nsetup < MaxNested /\ RegisterNamed(c, fn, t, name, lifetime)
    \/ \E t \in Threads, c \in 1..n, v \in TargetArgs, name \in Names :
          ResolveNamedGet(t, c, v, name)
    \/ \E t \in Threads : ResolveNamedLookup(t)
    \/ \E t \in Threads : ResolveNamedCreate(t)
    \/ \E t \in Threads : ResolveNamedStore(t)

SpecRace == Init /\ [][NextRace]_vars

\* Calls with arguments the register calls reject: the type markers nil and
\* int (no pointer), the nil factory, Lifetime(6), and the instances nil and
\* (*int)(nil).
ErrTypeArgs == TypeArgs \cup {NilHandle, Val("int", 1)}
ErrFactoryArgs == FactoryArgs \cup {NoFn}
ErrLifetimeArgs == LifetimeArgs \cup {UnsupportedLifetime}
ErrInstanceArgs == InstanceArgs \cup {NilHandle, NilPtr("int")}

NextErr ==
    \/ \E c \in 1..n : nsetup < MaxNested /\ Scope(c)
    \/ \E c \in 1..n, fn \in ErrFactoryArgs, t \in ErrTypeArgs, name \in Names,
          lifetime \in ErrLifetimeArgs :
          nsetup < MaxNested /\ RegisterNamed(c, fn, t, name, lifetime)
    \/ \E c \in 1..n, v \in ErrInstanceArgs, name \in Names :
          nsetup < MaxNested /\ RegisterNamedInstance(c, v, name)
    \/ \E c \in 1..n, v \in TargetArgs, name \in Names :
          ResolveNamed(c, v, name) /\ CallsBounded'

SpecErr == Init /\ [][NextErr]_vars

\* The reserved types with registrations and values of their own: factories
\* that return a Container or a Factory that is none of the tree, a factory
\* that resolves through the Factory it resolved, and such values set on the
\* stores.
OtherContainer == 9
ReservedTypes == {typeContainer, typeFactory}
ReservedRegisterArgs ==
    {<<Fn("new", t), NilPtr(t)>> : t \in ReservedTypes}
        \cup {<<Fn("via", "int"), NilPtr("int")>>}
ReservedInstanceArgs == {Val(t, OtherContainer) : t \in ReservedTypes}
ReservedTargetArgs == {Ptr(t, 0) : t \in ReservedTypes \cup {"int"}}

NextReserved ==
    \/ \E c \in 1..n : nsetup < MaxNested /\ Scope(c)
    \/ \E c \in 1..n, a \in ReservedRegisterArgs, name \in Names,
          lifetime \in LifetimeArgs :
          nsetup < MaxNested /\ RegisterNamed(c, a[1], a[2], name, lifetime)
    \/ \E c \in 1..n, v \in ReservedInstanceArgs, name \in Names :
          nsetup < MaxNested /\ SetNamed(c, v, name)
    \/ \E c \in 1..n, v \in ReservedTargetArgs, name \in Names :
          ResolveNamed(c, v, name) /\ NestedCallsBounded

SpecReserved == Init /\ [][NextReserved]_vars

\* Resolve with up to MaxTargets targets: &v with var v int, and v itself,
\* which is no pointer.  The factories return a new value or an error.
ResolveTargetArgs == {Ptr("int", 0), Val("int", 1)}
ResolveTargetSeqs ==
    UNION {[1..k -> ResolveTargetArgs] : k \in 0..MaxTargets}
ResolveFactoryArgs == {Fn("new", "int"), Fn("fail", "int")}

NextResolve ==
    \/ \E c \in 1..n : nsetup < MaxNested /\ Scope(c)
    \/ \E c \in 1..n, fn \in ResolveFactoryArgs, t \in TypeArgs, name \in Names,
          lifetime \in LifetimeArgs :
          nsetup < MaxNested /\ RegisterNamed(c, fn, t, name, lifetime)
    \/ \E c \in 1..n, vs \in ResolveTargetSeqs :
          Resolve(c, vs) /\ CallsBounded'

SpecResolve == Init /\ [][NextResolve]_vars

\* Containers that are registered on and scoped, resolved on and read with
\* the GetNamed their embedded Values give them.
NextGet ==
    \/ \E c \in 1..n : nsetup < MaxNested /\ Scope(c)
    \/ \E c \in 1..n, fn \in FactoryArgs, t \in TypeArgs, name \in Names,
          lifetime \in LifetimeArgs :
          nsetup < MaxNested /\ RegisterNamed(c, fn, t, name, lifetime)
    \/ \E c \in 1..n, v \in InstanceArgs, name \in Names :
          nsetup < MaxNested /\ RegisterNamedInstance(c, v, name)
    \/ \E c \in 1..n, v \in TargetArgs, name \in Names :
          ResolveNamed(c, v, name) /\ CallsBounded'
    \/ \E c \in 1..n, v \in TargetArgs, name \in Names : GetNamed(c, v, name)

SpecGet == Init /\ [][NextGet]_vars

\* track on the graph of an external call, for every RecursionLimit from 1
\* up to the one the other runs use.
NextTrack ==
    \/ \E limit \in 1..RecursionLimit : NewGraph(limit)
    \/ \E typ \in Types, name \in Names : Track(typ, name)

SpecTrack == Init /\ [][NextTrack]_vars

\* Factories on the root that return a new int, resolve their own key, or
\* resolve the key of the other name RecursionLimit times in a row.
RepeatFactoryArgs == {Fn("new", "int"), Fn("self", "int"), Fn("repeat", "int")}

NextRepeat ==
    \/ \E fn \in RepeatFactoryArgs, t \in TypeArgs, name \in Names,
          lifetime \in LifetimeArgs :
          nsetup < MaxNested /\ RegisterNamed(1, fn, t, name, lifetime)
    \/ \E v \in TargetArgs, name \in Names : ResolveNamed(1, v, name) /\ CallsBounded'

SpecRepeat == Init /\ [][NextRepeat]_vars

\* ---------------------------------------------- one goroutine, lock by lock

\* A lock: the RWMutex of the registry ("r"), of the value store ("values") or
\* of the instance cache ("instances") of container id, or the Mutex of graph
\* id of the goroutine ("g"); w: taken with Lock(), else with RLock().
LockOn(kind, id, w) == [kind |-> kind, id |-> id, w |-> w]
NoLock == LockOn("", 0, FALSE)

\* A call in progress: the method (op; "resolver" is
\* dependencyResolver.ResolveNamed), where it is (pc; in: between the Lock
\* and the Unlock of that place), the container and the name of the int key,
\* the graph of the resolver (gi), and what it has read or made so far: the
\* registration, the instance, the error, and for a factory that resolves
\* twice the number of resolves that returned (step).
Frame(op, pc, c, name, gi) ==
    [op |-> op, pc |-> pc, in |-> FALSE, c |-> c, name |-> name, gi |-> gi,
     reg |-> NoReg, inst |-> Nil, err |-> "", step |-> 0]

\* The container whose instance cache RegisterNamedInstance and the
\* PerContainer lifetime use: c.root, or c when that is nil.
rootOf(c) == IF root[c] = 0 THEN c ELSE root[c]

\* The lock the call f takes next, or is in.
wants(f) ==
    CASE f.op = "resolver" /\ f.pc = "get" -> LockOn("r", f.c, FALSE)
      [] f.op = "resolver" /\ f.pc = "fallback" -> LockOn("values", f.c, FALSE)
      [] f.op = "resolver" /\ f.pc = "cache" -> LockOn("instances", f.c, FALSE)
      [] f.op = "resolver" /\ f.pc = "track" -> LockOn("g", f.gi, TRUE)
      [] f.op = "resolver" /\ f.pc = "store" -> LockOn("instances", f.c, TRUE)
      [] f.op = "RegisterNamed" /\ f.pc = "set" -> LockOn("r", f.c, TRUE)
      [] f.op = "RegisterNamedInstance" /\ f.pc = "set" -> LockOn("r", f.c, TRUE)
      [] f.op = "RegisterNamedInstance" /\ f.pc = "cache" ->
           LockOn("instances", rootOf(f.c), TRUE)
      [] f.op = "SetNamed" /\ f.pc = "set" -> LockOn("values", f.c, TRUE)
      [] f.op = "Scope" /\ f.pc = "clone" -> LockOn("r", f.c, FALSE)
      [] f.op = "GetNamed" /\ f.pc = "get" -> LockOn("values", f.c, FALSE)
      [] OTHER -> NoLock

\* Lock() or RLock() of l returns: the goroutine holds l in no mode that
\* excludes the new one, and the mutex of a graph is not one that a return
\* of track has left locked.
Free(l) ==
    /\ \A h \in run.held : (h.kind = l.kind /\ h.id = l.id) => (~h.w /\ ~l.w)
    /\ l.kind = "g" => ~run.graphs[l.id].locked

top == run.stack[Len(run.stack)]
setTop(f) == [run.stack EXCEPT ![Len(run.stack)] = f]

\* The goroutine has made no call yet.
Untouched == run.stack = <<>> /\ run.out.op = ""

\* The methods the goroutine calls.
LockOps == {"ResolveNamed", "RegisterNamed", "RegisterNamedInstance", "SetNamed",
            "Scope", "GetNamed"}

\* The first place of a call of op on c.  Container.ResolveNamed makes a new
\* resolver on a new graph, which is graph gi of the goroutine.
enter(op, c, name, gi) ==
    CASE op = "ResolveNamed" -> Frame("resolver", "get", c, name, gi)
      [] op = "Scope" -> Frame("Scope", "clone", c, name, 0)
      [] op = "GetNamed" -> Frame("GetNamed", "get", c, name, 0)
      [] OTHER -> Frame(op, "set", c, name, 0)

\* The goroutine calls op on container c for the key (int, name).
Call(op, c, name) ==
    /\ Untouched
    /\ run' = [run EXCEPT
                 !.stack = <<enter(op, c, name, 1)>>,
                 !.graphs = IF op = "ResolveNamed"
                            THEN <<newDependencyResolverGraph>> ELSE <<>>]
    /\ UNCHANGED <<n, root, parent, values, r, named, instances, calls, nextReg,
                   nreg, nsets, lastSet, got, objs, ret, th, lastCreate, dg>>

\* The innermost call takes its next lock and makes the map access of that
\* place: registry.get, Values.get, the count of track, Values.set,
\* registry.set or registry.clone.  track returns false from inside its
\* lock.  The registrations a call made here stores have a PerRequest factory
\* that returns a new int, the instances and values have the payload 1.
Acquire ==
    /\ run.stack # <<>>
    /\ ~top.in
    /\ wants(top) # NoLock
    /\ Free(wants(top))
    /\ LET f == top
           l == wants(f)
           key == <<"int", f.name>>
           in(g) == [run EXCEPT !.stack = setTop([g EXCEPT !.in = TRUE]),
                                !.held = @ \cup {l}]
           tr == track(run.graphs[f.gi], "int", f.name)
           fn == IF f.op = "RegisterNamed" THEN Fn("new", "int") ELSE Fn("static", "int")
           registration ==
               Registration(nextReg, "int", f.name,
                            IF f.op = "RegisterNamed" THEN NilHandle ELSE Val("int", 1),
                            fn,
                            IF f.op = "RegisterNamed" THEN PerRequest ELSE PerContainer)
           set == registrySet(r, named, f.c, "int", f.name, registration)
           cl == clone(r, named, f.c, n + 1)
       IN  CASE l.kind = "g" ->
                  /\ run' = IF tr.ok
                            THEN [in(f) EXCEPT !.graphs[f.gi] = tr.g]
                            ELSE [run EXCEPT
                                    !.stack = setTop([f EXCEPT !.pc = "return",
                                          !.err = "ResolveInfiniteRecursion"]),
                                    !.held = @ \cup {l},
                                    !.graphs[f.gi] = tr.g]
                  /\ UNCHANGED <<n, root, parent, values, r, named, instances,
                                 nextReg, nreg, nsets, lastSet, objs>>
             [] l.kind = "r" /\ f.op = "resolver" ->
                  /\ run' = in([f EXCEPT !.reg = registryGet(r, named, f.c, "int", f.name)])
                  /\ UNCHANGED <<n, root, parent, values, r, named, instances,
                                 nextReg, nreg, nsets, lastSet, objs>>
             [] l.kind = "r" /\ f.op = "Scope" ->
                  /\ n < Cardinality(Containers)
                  /\ run' = in(f)
                  /\ n' = n + 1
                  /\ root' = [root EXCEPT ![n + 1] = rootOf(f.c)]
                  /\ parent' = [parent EXCEPT ![n + 1] = f.c]
                  /\ r' = cl.r
                  /\ named' = cl.named
                  /\ UNCHANGED <<values, instances, nextReg, nreg, nsets, lastSet, objs>>
             [] l.kind = "r" /\ f.op \in {"RegisterNamed", "RegisterNamedInstance"} ->
                  /\ nextReg \in RegIds
                  /\ run' = in(f)
                  /\ r' = set.r
                  /\ named' = set.named
                  /\ nextReg' = nextReg + 1
                  /\ nreg' = [nreg EXCEPT ![f.c][key] = @ + 1]
                  /\ objs' = [objs EXCEPT ![nextReg] =
                                     [at |-> f.c, Lifetime |-> registration.Lifetime]]
                  /\ UNCHANGED <<n, root, parent, values, instances, nsets, lastSet>>
             [] l.kind = "values" /\ f.op = "SetNamed" ->
                  /\ run' = in(f)
                  /\ values' = valuesSet(values, f.c, "int", f.name, Inst("int", 1))
                  /\ nsets' = nsets + 1
                  /\ lastSet' = [lastSet EXCEPT ![f.c][key] = 1]
                  /\ UNCHANGED <<n, root, parent, r, named, instances, nextReg, nreg, objs>>
             [] l.kind = "values" /\ f.op # "SetNamed" ->
                  /\ run' = in([f EXCEPT !.inst = valuesGet(values, f.c, "int", f.name)])
                  /\ UNCHANGED <<n, root, parent, values, r, named, instances,
                                 nextReg, nreg, nsets, lastSet, objs>>
             [] l.kind = "instances" /\ ~l.w ->
                  /\ run' = in([f EXCEPT !.inst = valuesGet(instances, f.c, "int", f.name)])
                  /\ UNCHANGED <<n, root, parent, values, r, named, instances,
                                 nextReg, nreg, nsets, lastSet, objs>>
             [] l.kind = "instances" /\ l.w ->
                  /\ run' = in(f)
                  /\ instances' = valuesSet(instances, l.id, "int", f.name,
                                            IF f.op = "resolver" THEN f.inst
                                            ELSE Inst("int", 1))
                  /\ UNCHANGED <<n, root, parent, values, r, named,
                                 nextReg, nreg, nsets, lastSet, objs>>
    /\ UNCHANGED <<calls, got, ret, th, lastCreate, dg>>

\* Where the call f goes on after the Unlock of the place it is in.
leave(f) ==
    LET returns(err) == [f EXCEPT !.pc = "return", !.err = err]
    IN  CASE f.op = "resolver" /\ f.pc = "get" ->
               IF f.reg = NoReg THEN [f EXCEPT !.pc = "fallback"]
               ELSE IF f.reg.Lifetime = PerContainer
                    THEN [f EXCEPT !.pc = "cache", !.c = rootOf(f.c)]
               ELSE IF f.reg.Lifetime = PerScope THEN [f EXCEPT !.pc = "cache"]
               ELSE IF f.reg.Lifetime = PerRequest THEN [f EXCEPT !.pc = "track"]
               ELSE returns("UnsupportedLifetime")
          [] f.op = "resolver" /\ f.pc = "fallback" ->
               returns(IF f.inst = Nil THEN "UnresolvedDependency" ELSE "ok")
          [] f.op = "resolver" /\ f.pc = "cache" ->
               IF f.inst # Nil THEN returns("ok") ELSE [f EXCEPT !.pc = "track"]
          [] f.op = "resolver" /\ f.pc = "track" -> [f EXCEPT !.pc = "factory"]
          [] f.op = "RegisterNamedInstance" /\ f.pc = "set" -> [f EXCEPT !.pc = "cache"]
          [] f.op = "GetNamed" /\ f.inst = Nil /\ parent[f.c] # 0 ->
               [f EXCEPT !.c = parent[f.c]]
          [] f.op = "GetNamed" /\ f.inst = Nil /\ parent[f.c] = 0 ->
               returns("InstanceNotFound")
          [] OTHER -> returns("ok")

\* Release that leaves the read lock of the instance cache locked when the
\* cache has no instance, for the time the factory runs.
ReleaseKeepsCacheLock ==
    /\ run.stack # <<>>
    /\ top.in
    /\ run' = [run EXCEPT !.stack = setTop([leave(top) EXCEPT !.in = FALSE]),
                          !.held = IF top.op = "resolver" /\ top.pc = "cache"
                                      /\ top.inst = Nil
                                   THEN @ ELSE @ \ {wants(top)}]
    /\ UNCHANGED <<n, root, parent, values, r, named, instances, calls, nextReg,
                   nreg, nsets, lastSet, got, objs, ret, th, lastCreate, dg>>

\* The innermost call releases the lock it is in and goes on.
Release ==
    /\ run.stack # <<>>
    /\ top.in
    /\ run' = [run EXCEPT !.stack = setTop([leave(top) EXCEPT !.in = FALSE]),
                          !.held = @ \ {wants(top)}]
    /\ UNCHANGED <<n, root, parent, values, r, named, instances, calls, nextReg,
                   nreg, nsets, lastSet, got, objs, ret, th, lastCreate, dg>>

\* What resolveSingletonLifetime or resolvePerRequestLifetime does with the
\* instance CreateInstance returned to the call f: the singleton goes to the
\* cache, the PerRequest instance is returned.
made(f, inst) ==
    IF f.reg.Lifetime = PerRequest
    THEN [f EXCEPT !.pc = "return", !.inst = inst, !.err = "ok"]
    ELSE [f EXCEPT !.pc = "store", !.inst = inst]

\* The factories that call a method of a container they hold, on the key of
\* the other name, and return a new int whatever the call returned.
CallingFactories ==
    [registers |-> "RegisterNamed", instance |-> "RegisterNamedInstance",
     sets |-> "SetNamed", scopes |-> "Scope", resolves |-> "ResolveNamed"]

\* The innermost call, a resolver that track has let pass, invokes the
\* factory of its registration (CreateInstance), with no lock of its own.
\* The factories are those of CallFactory, and "renew", which resolves its
\* own key through the resolver it is given and returns a new int whatever
\* the resolve returned, and the factories that call a method on d, the
\* container of the resolver or its root.
Invoke(d) ==
    /\ run.stack # <<>>
    /\ top.pc = "factory"
    /\ d \in {top.c, rootOf(top.c)}
    /\ LET f == top
           k == f.reg.CreateInstanceFn.k
           fresh == Inst("int", 10 * f.reg.id + calls[f.reg.id] + 1)
           waits == [f EXCEPT !.pc = "called", !.inst = fresh]
           gi == IF k = "resolves" THEN Len(run.graphs) + 1 ELSE f.gi
       IN  /\ calls' = [calls EXCEPT ![f.reg.id] = @ + 1]
           /\ run' =
                CASE k = "new" -> [run EXCEPT !.stack = setTop(made(f, fresh))]
                  [] k = "static" ->
                       [run EXCEPT !.stack =
                           setTop(made(f, Inst("int", f.reg.Value.val)))]
                  [] k \in {"self", "catch", "renew"} ->
                       [run EXCEPT !.stack =
                           Append(setTop(waits), Frame("resolver", "get", f.c, f.name, f.gi))]
                  [] k = "dep" ->
                       [run EXCEPT !.stack =
                           Append(setTop(waits),
                                  Frame("resolver", "get", f.c, Other(f.name), f.gi))]
                  [] k \in DOMAIN CallingFactories ->
                       [run EXCEPT
                           !.stack = Append(setTop(waits),
                                            enter(CallingFactories[k], d, Other(f.name), gi)),
                           !.graphs = IF k = "resolves"
                                      THEN Append(@, newDependencyResolverGraph) ELSE @]
                  [] OTHER ->
                       [run EXCEPT !.stack =
                           setTop([f EXCEPT !.pc = "return", !.err = "CreateInstance"])]
    /\ UNCHANGED <<n, root, parent, values, r, named, instances, nextReg,
                   nreg, nsets, lastSet, got, objs, ret, th, lastCreate, dg>>

\* What the factory of the call f, which waits for a call it made, does when
\* that call returns res: it returns the error or the instance of a resolve
\* ("self", "dep", and "catch" when its first resolve gave an instance or its
\* second resolve returned), or it returns its new int.
factoryResumes(f, res) ==
    LET k == f.reg.CreateInstanceFn.k
    IN  IF k \in {"self", "dep", "catch"}
        THEN IF res.err # "ok"
             THEN [f EXCEPT !.pc = "return", !.err = "CreateInstance"]
             ELSE made(f, res.inst)
        ELSE made(f, f.inst)

\* The innermost call returns: to the factory that made it, which goes on or
\* ("catch", after the first resolve failed) resolves the key of the other
\* name, or to the goroutine.
Return ==
    /\ run.stack # <<>>
    /\ top.pc = "return"
    /\ LET res == top
           m == Len(run.stack)
           f == run.stack[m - 1]
           rest == SubSeq(run.stack, 1, m - 2)
       IN  run' =
             IF m = 1
             THEN [run EXCEPT !.stack = <<>>,
                              !.out = [op |-> res.op, inst |-> res.inst, err |-> res.err]]
             ELSE IF f.reg.CreateInstanceFn.k = "catch" /\ f.step = 0 /\ res.err # "ok"
             THEN [run EXCEPT !.stack =
                      rest \o <<[f EXCEPT !.step = 1],
                                Frame("resolver", "get", f.c, Other(f.name), f.gi)>>]
             ELSE [run EXCEPT !.stack = Append(rest, factoryResumes(f, res))]
    /\ UNCHANGED <<n, root, parent, values, r, named, instances, calls, nextReg,
                   nreg, nsets, lastSet, got, objs, ret, th, lastCreate, dg>>

\* The factories registered before the goroutine makes its call.
LockFactoryArgs ==
    {Fn(k, "int") : k \in {"new", "self", "dep", "catch", "renew"}
                            \cup DOMAIN CallingFactories}

\* Registrations and scopes are made first, one registration for the unnamed
\* int key of a container at most; then the goroutine makes one call.
NextLock ==
    \/ \E c \in 1..n : Untouched /\ nsetup < MaxNested /\ Scope(c)
    \/ \E c \in 1..n, fn \in LockFactoryArgs, lifetime \in LifetimeArgs :
          /\ Untouched
          /\ nsetup < MaxNested
          /\ registryGet(r, named, c, "int", "") = NoReg
          /\ RegisterNamed(c, fn, NilPtr("int"), "", lifetime)
    \/ \E op \in LockOps, c \in 1..n, name \in Names : Call(op, c, name)
    \/ Acquire
    \/ Release
    \/ \E d \in 1..n : Invoke(d)
    \/ Return

SpecLock == Init /\ [][NextLock]_vars

\* track on the int keys of the graph of an external call while
\* RecursionLimit is set anew.
NextLimit ==
    \/ \E limit \in 1..RecursionLimit : NewGraph(limit)
    \/ \E limit \in 1..RecursionLimit, racing \in BOOLEAN : SetLimit(limit, racing)
    \/ \E name \in Names : Track("int", name)

SpecLimit == Init /\ [][NextLimit]_vars

\* PerContainer factories named "one" that resolve the unnamed key of their
\* type (an int, or the Container) through the resolver they are given, next
\* to PerRequest factories for the unnamed int and values set for it on the
\* stores.
RootRegisterArgs ==
    {<<Fn("dep", "int"), NilPtr("int"), "one", PerContainer>>,
     <<Fn("dep", typeContainer), NilPtr(typeContainer), "one", PerContainer>>,
     <<Fn("new", "int"), NilPtr("int"), "", PerRequest>>}
RootInstanceArgs == {Val("int", 1)}
RootTargetArgs == {Ptr("int", 0), Ptr(typeContainer, 0)}

NextRoot ==
    \/ \E c \in 1..n : nsetup < MaxSetup /\ Scope(c)
    \/ \E c \in 1..n, a \in RootRegisterArgs :
          nsetup < MaxSetup /\ RegisterNamed(c, a[1], a[2], a[3], a[4])
    \/ \E c \in 1..n, v \in RootInstanceArgs :
          nsetup < MaxSetup /\ SetNamed(c, v, "")
    \/ \E c \in 1..n, v \in RootTargetArgs, name \in Names :
          ResolveNamed(c, v, name) /\ NestedCallsBounded

SpecRoot == Init /\ [][NextRoot]_vars

\* Every operation of a Container, on trees of up to MaxNested set-up calls,
\* with factories that return a new value and factories that resolve the key
\* of the other name.
OwnFactoryArgs == {Fn("new", "int"), Fn("dep", "int")}

NextOwn ==
    \/ \E c \in 1..n : nsetup < MaxNested /\ Scope(c)
    \/ \E c \in 1..n, fn \in OwnFactoryArgs, t \in TypeArgs, name \in Names,
          lifetime \in LifetimeArgs :
          nsetup < MaxNested /\ RegisterNamed(c, fn, t, name, lifetime)
    \/ \E c \in 1..n, v \in InstanceArgs, name \in Names :
          nsetup < MaxNested /\ RegisterNamedInstance(c, v, name)
    \/ \E c \in 1..n, v \in TargetArgs, name \in Names :
          ResolveNamed(c, v, name) /\ CallsBounded'
    \/ \E c \in 1..n, v \in InstanceArgs, name \in Names :
          nsetup < MaxNested /\ SetNamed(c, v, name)

SpecOwn == Init /\ [][NextOwn]_vars

\* Registration.CreateInstance on Registration values of every declared type
\* and factory: no factory, a failing one, ones that return nil or a nil
\* pointer, and ones that return a value or a pointer to a value.
CreateTypeArgs == {"int", "File", "IN", "Reader"}
CreateFactoryArgs ==
    {NoFn, Fn("fail", "int"), Fn("nil", "")}
        \cup {Fn(k, typ) : k \in {"new", "newptr", "nilptr"}, typ \in ValueTypes}

NextCreate ==
    \E fn \in CreateFactoryArgs, typ \in CreateTypeArgs :
        CreateInstanceCall(fn, typ) /\ CallsBounded'

SpecCreate == Init /\ [][NextCreate]_vars

\* ------------------------------------------------------- the value stores

\* The target var v int, passed as &v.
IntTarget == Ptr("int", 0)

\* The store of container c and the stores GetNamed falls back to: its parent,
\* the parent of its parent, and so on.
RECURSIVE Chain(_)
Chain(c) == IF c = 0 THEN {} ELSE {c} \cup Chain(parent[c])

\* The stores of Chain(c) on which SetNamed was called for the key.
Holders(c, k) == {d \in Chain(c) : lastSet[d][k] # 0}

\* The nearest of them: a scope is created after its parent, so it is the one
\* created last.
Nearest(c, k) == CHOOSE d \in Holders(c, k) : \A e \in Holders(c, k) : e <= d

\* C7: GetNamed(T, N) on a store on which SetNamed(T, N) was called returns
\* the value of the most recent of these calls, whatever its ancestors hold.
C7_GetReturnsLastSet ==
    [][\A c \in 1..n, name \in Names :
          (GetNamed(c, IntTarget, name) /\ lastSet[c][<<"int", name>>] # 0)
          => (got'.err = "ok" /\ got'.val = lastSet[c][<<"int", name>>])]_vars

\* A GetNamed on a scope returned the scope's own value while the parent of
\* the scope holds another value for the key.
C7_Witness ==
    /\ got.c >= 2
    /\ got.err = "ok"
    /\ lastSet[got.c][<<got.typ, got.name>>] = got.val
    /\ lastSet[parent[got.c]][<<got.typ, got.name>>] \notin {0, got.val}

\* C8: GetNamed(T, N) returns the store's own binding when there is one,
\* otherwise the binding of the nearest ancestor that has one, and fails with
\* InstanceNotFound exactly when no store of the chain has one.
C8_GetWalksTheChain ==
    [][\A c \in 1..n, name \in Names :
          GetNamed(c, IntTarget, name)
          => LET k == <<"int", name>> IN
             IF Holders(c, k) = {}
             THEN got'.err = "InstanceNotFound"
             ELSE got'.err = "ok" /\ got'.val = lastSet[Nearest(c, k)][k]]_vars

\* A GetNamed on a scope of a scope returned the value of the root store:
\* neither the scope nor its parent holds the key.
C8_Witness ==
    /\ got.c # 0
    /\ parent[got.c] # 0
    /\ parent[parent[got.c]] # 0
    /\ lastSet[got.c][<<got.typ, got.name>>] = 0
    /\ lastSet[parent[got.c]][<<got.typ, got.name>>] = 0
    /\ got.err = "ok"
    /\ got.val = lastSet[parent[parent[got.c]]][<<got.typ, got.name>>]

\* C9: SetNamed on a store changes the local mapping of that store only, and
\* GetNamed on a store that is neither that store nor below it returns what it
\* returned before.
C9_SetIsLocal ==
    [][\A c \in 1..n, v \in InstanceArgs, name \in Names :
          SetNamed(c, v, name)
          => /\ \A d \in Containers \ {c} : values'[d] = values[d]
             /\ instances' = instances
             /\ \A d \in 1..n, nm \in Names :
                   c \notin Chain(d)
                   => getNamed(d, IntTarget, nm)' = getNamed(d, IntTarget, nm)]_vars

\* A scope holds a value for a key, its parent holds another one, and
\* GetNamed on the parent still returns the parent's.
C9_Witness ==
    \E c \in 2..n, name \in Names :
        LET k == <<"int", name>> IN
        /\ lastSet[c][k] # 0
        /\ lastSet[parent[c]][k] \notin {0, lastSet[c][k]}
        /\ values[c][k] = Inst("int", lastSet[c][k])
        /\ getNamed(parent[c], IntTarget, name).inst
               = Inst("int", lastSet[parent[c]][k])

\* ---------------------------------------------------------- the registries

\* Container.Registrations on container c.
Registrations(c) == getAll(r, named, c)

\* C10: the scope Scope() creates starts with the registrations of its parent,
\* and from then on a RegisterNamed or RegisterNamedInstance on one container
\* changes the Registrations() of no other container.  (Scope is the step that
\* adds a container, the register calls are the steps that number a new
\* registration.)
C10_RegistriesIndependent ==
    [][(n' # n \/ nextReg' # nextReg) =>
       /\ \A c \in 1..n : Scope(c) => getAll(r', named', n') = Registrations(c)
       /\ \A c \in 1..n, name \in Names :
             (\/ \E fn \in FactoryArgs, t \in TypeArgs, lifetime \in LifetimeArgs :
                    RegisterNamed(c, fn, t, name, lifetime)
              \/ \E v \in InstanceArgs : RegisterNamedInstance(c, v, name))
             => /\ Registrations(c)' # Registrations(c)
                /\ \A d \in (1..n) \ {c} : Registrations(d)' = Registrations(d)]_vars

\* A scope and its parent hold different registrations for a key: one of them
\* registered the key after the scope was made.
C10_Witness ==
    \E c \in 2..n, name \in Names :
        /\ registryGet(r, named, c, "int", name) # NoReg
        /\ registryGet(r, named, parent[c], "int", name) # NoReg
        /\ registryGet(r, named, c, "int", name)
               # registryGet(r, named, parent[c], "int", name)

\* ----------------------------------------------------------- the lifetimes

\* The registration container c holds for (int, name).
Held(c, name) == registryGet(r, named, c, "int", name)

\* (int, name) was registered by one call in the whole tree of containers.
RegisteredOnce(name) ==
    /\ \A c \in Containers : nreg[c][<<"int", name>>] <= 1
    /\ Cardinality({c \in Containers : nreg[c][<<"int", name>>] = 1}) = 1

\* The instance a factory registered with id q returns on its i-th invocation.
Made(q, i) == Inst("int", 10 * q + i)

\* C1: for a PerContainer factory that is the one registration of (T, N) in
\* the tree, the factory is invoked at most once, by the first ResolveNamed on
\* any container that holds the registration; every such ResolveNamed returns
\* that instance, and the cache of the root is the one cache that holds it.
C1_PerContainerOnce ==
    \A name \in Names, c \in 1..n :
        LET k == <<"int", name>>
            q == Held(c, name)
            res == resolve(c, IntTarget, name)
        IN  (/\ RegisteredOnce(name)
             /\ q # NoReg
             /\ q.Lifetime = PerContainer
             /\ q.CreateInstanceFn.k = "new")
            => /\ calls[q.id] <= 1
               /\ instances[1][k] = IF calls[q.id] = 0 THEN Nil ELSE Made(q.id, 1)
               /\ \A d \in Containers \ {1} : instances[d][k] = Nil
               /\ res.err = "ok"
               /\ res.inst = Made(q.id, 1)
               /\ res.st.calls = [calls EXCEPT ![q.id] = 1]
               /\ res.st.instances = [instances EXCEPT ![1][k] = Made(q.id, 1)]

\* The root, a scope of it and a scope of that scope hold the registration,
\* and the factory has run: its instance is in the cache of the root.
C1_Witness ==
    \E name \in Names :
        /\ RegisteredOnce(name)
        /\ n >= 3 /\ parent[2] = 1 /\ parent[3] = 2
        /\ Held(1, name) # NoReg
        /\ Held(1, name).Lifetime = PerContainer
        /\ Held(1, name).CreateInstanceFn.k = "new"
        /\ Held(2, name) = Held(1, name)
        /\ Held(3, name) = Held(1, name)
        /\ calls[Held(1, name).id] = 1
        /\ instances[1][<<"int", name>>] = Made(Held(1, name).id, 1)

\* C2: for a PerScope factory that is the one registration of (T, N) in the
\* tree, every container that holds the registration caches an instance of
\* its own: the factory has run once for each container that has resolved the
\* key, the cached instances differ from one another, a ResolveNamed on a
\* container that has one returns it without invoking the factory, and the
\* first ResolveNamed on any other holder invokes the factory and caches the
\* result in that container only.
C2_PerScopeOncePerContainer ==
    \A name \in Names, c \in 1..n :
        LET k == <<"int", name>>
            q == Held(c, name)
            res == resolve(c, IntTarget, name)
            cached == {d \in Containers : instances[d][k] # Nil}
        IN  (/\ RegisteredOnce(name)
             /\ q # NoReg
             /\ q.Lifetime = PerScope
             /\ q.CreateInstanceFn.k = "new")
            => /\ \A d \in cached : d <= n /\ Held(d, name) = q
               /\ calls[q.id] = Cardinality(cached)
               /\ \A d \in cached :
                     \E i \in 1..calls[q.id] : instances[d][k] = Made(q.id, i)
               /\ \A d, e \in cached : d # e => instances[d][k] # instances[e][k]
               /\ res.err = "ok"
               /\ IF c \in cached
                  THEN /\ res.inst = instances[c][k]
                       /\ res.st.calls = calls
                       /\ res.st.instances = instances
                  ELSE /\ res.inst = Made(q.id, calls[q.id] + 1)
                       /\ res.st.calls = [calls EXCEPT ![q.id] = @ + 1]
                       /\ res.st.instances = [instances EXCEPT ![c][k] = res.inst]

\* The root and two scopes of it hold the registration and each has resolved
\* the key: three invocations, three instances.
C2_Witness ==
    \E name \in Names :
        /\ RegisteredOnce(name)
        /\ n >= 3 /\ parent[2] = 1 /\ parent[3] = 1
        /\ Held(1, name) # NoReg
        /\ Held(1, name).Lifetime = PerScope
        /\ Held(2, name) = Held(1, name)
        /\ Held(3, name) = Held(1, name)
        /\ calls[Held(1, name).id] = 3
        /\ \A d \in 1..3 : instances[d][<<"int", name>>] # Nil
        /\ instances[1][<<"int", name>>] # instances[2][<<"int", name>>]
        /\ instances[2][<<"int", name>>] # instances[3][<<"int", name>>]
        /\ instances[1][<<"int", name>>] # instances[3][<<"int", name>>]

\* C3: for a PerRequest factory, every ResolveNamed invokes the factory and
\* returns what that invocation returned, whatever the caches hold for the
\* key, and leaves every cache as it was.
C3_PerRequestAnew ==
    \A name \in Names, c \in 1..n :
        LET q == Held(c, name)
            res == resolve(c, IntTarget, name)
        IN  (/\ q # NoReg
             /\ q.Lifetime = PerRequest
             /\ q.CreateInstanceFn.k = "new")
            => /\ res.err = "ok"
               /\ res.inst = Made(q.id, calls[q.id] + 1)
               /\ res.st.calls = [calls EXCEPT ![q.id] = @ + 1]
               /\ res.st.instances = instances

\* A PerRequest factory has run twice on a container whose cache holds an
\* instance for the key, left by an earlier registration.
C3_Witness ==
    \E name \in Names, c \in 1..n :
        /\ Held(c, name) # NoReg
        /\ Held(c, name).Lifetime = PerRequest
        /\ calls[Held(c, name).id] >= 2
        /\ instances[c][<<"int", name>>] # Nil

\* ------------------------------------------------- registered instances

\* C4: right after a successful RegisterNamedInstance(v, N) on a container,
\* ResolveNamed for (type of v, N) on that container succeeds and sets the
\* target to v, whatever the registries, stores and caches held before.
C4_InstanceRoundTrip ==
    [][nextReg' # nextReg =>
       \A c \in 1..n, v \in InstanceArgs, name \in Names :
          (RegisterNamedInstance(c, v, name) /\ GetNamedInstance(v).err = "ok")
          => /\ resolve(c, IntTarget, name)'.err = "ok"
             /\ resolve(c, IntTarget, name)'.inst
                    = Inst(GetNamedInstance(v).typ, GetNamedInstance(v).val)]_vars

\* A scope holds a registered instance for a key while its own cache holds
\* another instance for the key, made by a factory registered before;
\* ResolveNamed on the scope returns the registered instance.
C4_Witness ==
    \E c \in 2..n, name \in Names :
        /\ Held(c, name) # NoReg
        /\ Held(c, name).CreateInstanceFn.k = "static"
        /\ instances[c][<<"int", name>>] # Nil
        /\ instances[c][<<"int", name>>].val # Held(c, name).Value.val
        /\ resolve(c, IntTarget, name).err = "ok"
        /\ resolve(c, IntTarget, name).inst = Inst("int", Held(c, name).Value.val)

\* C5: right after a successful RegisterNamedInstance(v, N) on a scope,
\* ResolveNamed for (type of v, N) on the root succeeds and returns v.
C5_InstanceVisibleFromRoot ==
    [][nextReg' # nextReg =>
       \A c \in 2..n, v \in InstanceArgs, name \in Names :
          (RegisterNamedInstance(c, v, name) /\ GetNamedInstance(v).err = "ok")
          => /\ resolve(1, IntTarget, name)'.err = "ok"
             /\ resolve(1, IntTarget, name)'.inst
                    = Inst(GetNamedInstance(v).typ, GetNamedInstance(v).val)]_vars

\* ------------------------------------------------------------ overwriting

\* The cache resolveSingletonLifetime uses for registration q on container c.
CacheOf(c, q) == IF q.Lifetime = PerContainer /\ root[c] # 0 THEN root[c] ELSE c

\* The result res of a ResolveNamed is the value registration q supplies: the
\* registered instance, or an instance the factory of q made.
SuppliedBy(q, res) ==
    /\ res.err = "ok"
    /\ IF q.CreateInstanceFn.k = "static"
       THEN res.inst = Inst("int", q.Value.val)
       ELSE \E i \in 1..(MaxCalls + 1) : res.inst = Made(q.id, i)

\* C6 as stated: on a container on which (T, N) was registered twice or more,
\* ResolveNamed(T, N) returns the value the last of these registrations
\* supplies.
C6_SecondRegistrationObserved ==
    \A c \in 1..n, name \in Names :
        nreg[c][<<"int", name>>] >= 2
        => SuppliedBy(Held(c, name), resolve(c, IntTarget, name))

\* C6: on a container on which (T, N) was registered twice or more,
\* ResolveNamed(T, N) returns the value the last of these registrations
\* supplies, unless that registration has a singleton lifetime and the cache
\* its lifetime uses holds an instance for (T, N): then it returns the cached
\* instance and invokes no factory.
C6_SecondRegistrationUnlessCached ==
    \A c \in 1..n, name \in Names :
        LET k == <<"int", name>>
            q == Held(c, name)
            res == resolve(c, IntTarget, name)
        IN  nreg[c][k] >= 2
            => IF q.Lifetime # PerRequest /\ instances[CacheOf(c, q)][k] # Nil
               THEN /\ res.err = "ok"
                    /\ res.inst = instances[CacheOf(c, q)][k]
                    /\ res.st.calls = calls
                    /\ res.st.instances = instances
               ELSE /\ SuppliedBy(q, res)
                    /\ res.st.calls[q.id] = calls[q.id] + 1

\* (T, N) was registered twice on a container with factories, the key was
\* resolved between the two calls, and ResolveNamed returns the instance the
\* first factory made.
C6_Witness ==
    \E c \in 1..n, name \in Names :
        LET q == Held(c, name) IN
        /\ nreg[c][<<"int", name>>] >= 2
        /\ q.CreateInstanceFn.k = "new"
        /\ calls[q.id] = 0
        /\ resolve(c, IntTarget, name).err = "ok"
        /\ \E p \in RegIds \ {q.id} : resolve(c, IntTarget, name).inst = Made(p, 1)

\* ------------------------------------------------------------- visibility

\* The id of the registration whose factory made instance inst (0: inst was
\* not made by a factory).
MadeBy(inst) == IF inst.val >= 10 THEN inst.val \div 10 ELSE 0

C12_FallbackWalksTheChain ==
    \A c \in 1..n, name \in Names :
        LET k == <<"int", name>>
            res == resolve(c, IntTarget, name)
        IN  Held(c, name) = NoReg
            => IF Holders(c, k) = {}
               THEN res.err # "ok"
               ELSE /\ res.err = "ok"
                    /\ res.inst = Inst("int", lastSet[Nearest(c, k)][k])

InnermostCause(res) == IF res.inner = <<>> THEN res.err ELSE res.inner[Len(res.inner)]

\* The registration q that container c holds for (int, name) is the one that
\* serves a resolve of (int, name) made by the factory of q, which is given
\* the resolver of the root when q is PerContainer, and no cache that q uses
\* holds an instance for the key.
SelfResolving(c, name, q) ==
    /\ q # NoReg
    /\ q.CreateInstanceFn.k = "self"
    /\ Held(CacheOf(c, q), name) = q
    /\ q.Lifetime # PerRequest => instances[CacheOf(c, q)][<<"int", name>>] = Nil

\* C14 as stated: ResolveNamed(T, N), with a factory for (T, N) that resolves
\* (T, N) again through the resolver it is given and returns the error it
\* gets, returns an error of kind InfiniteRecursion.
C14_RecursionKindReceived ==
    \A c \in 1..n, name \in Names :
        LET q == Held(c, name)
        IN  (q # NoReg /\ q.CreateInstanceFn.k = "self")
            => resolve(c, IntTarget, name).err = "ResolveInfiniteRecursion"

\* C14: for each lifetime, ResolveNamed(T, N) on a container whose registration
\* for (T, N) has such a factory and also serves the resolve the factory makes,
\* with no instance cached for (T, N), fails with CreateInstanceFailed whose
\* innermost cause is InfiniteRecursion, after RecursionLimit - 1 invocations
\* of the factory, and caches nothing.
C14_RecursionWrapped ==
    \A c \in 1..n, name \in Names :
        LET q == Held(c, name)
            res == resolve(c, IntTarget, name)
        IN  SelfResolving(c, name, q)
            => /\ res.err = "CreateInstance"
               /\ InnermostCause(res) = "ResolveInfiniteRecursion"
               /\ Len(res.inner) = RecursionLimit - 1
               /\ res.inst = Nil
               /\ res.st.calls = [calls EXCEPT ![q.id] = @ + RecursionLimit - 1]
               /\ res.st.instances = instances

\* A scope inherited a PerContainer registration with such a factory from the
\* root, ResolveNamed ran the factory RecursionLimit - 1 times or more, and a
\* ResolveNamed on the scope fails again.
C14_Witness ==
    \E c \in 2..n, name \in Names :
        LET q == Held(c, name)
        IN  /\ SelfResolving(c, name, q)
            /\ q.Lifetime = PerContainer
            /\ calls[q.id] >= RecursionLimit - 1
            /\ resolve(c, IntTarget, name).err = "CreateInstance"

\* C16: every ResolveNamed returns, with an instance or an error: none waits
\* for ever, whatever the factories resolve and whichever errors they handle.
C16_ResolveReturns ==
    \A c \in 1..n, name \in Names : resolve(c, IntTarget, name).err # "blocked"

\* What a second ResolveNamed(T, N) on c does after the one with result res.
Retry(c, name, res) ==
    resolverResolveNamed(res.st, newDependencyResolverGraph, c, IntTarget, name)

\* C17: a ResolveNamed(T, N) that fails on a PerContainer or PerScope
\* registration (the factory returns an error, nil or a value of another
\* type, or a resolve it makes fails, with InfiniteRecursion among the causes)
\* writes no entry for (T, N) to any instance cache; the next ResolveNamed(T, N)
\* invokes the factory again, and succeeds and caches the instance when the
\* factory fails on its first invocation only.
C17_ErrorsNotCached ==
    \A c \in 1..n, name \in Names :
        LET q == Held(c, name)
            k == <<"int", name>>
            res == resolve(c, IntTarget, name)
            again == Retry(c, name, res)
        IN  (q # NoReg /\ q.Lifetime \in {PerContainer, PerScope} /\ res.err # "ok")
            => /\ \A d \in Containers : res.st.instances[d][k] = instances[d][k]
               /\ again.st.calls[q.id] > res.st.calls[q.id]
               /\ q.CreateInstanceFn.k = "flaky"
                  => /\ again.err = "ok"
                     /\ again.inst = Made(q.id, 2)
                     /\ again.st.instances[CacheOf(c, q)][k] = again.inst

\* A PerContainer or PerScope factory that fails on its first invocation only
\* was invoked once, by a ResolveNamed that failed; no cache holds an
\* instance for the key and ResolveNamed now succeeds.
C17_Witness ==
    \E c \in 1..n, name \in Names :
        LET q == Held(c, name)
        IN  /\ q # NoReg
            /\ q.Lifetime \in {PerContainer, PerScope}
            /\ q.CreateInstanceFn.k = "flaky"
            /\ calls[q.id] = 1
            /\ \A d \in Containers : instances[d][<<"int", name>>] = Nil
            /\ resolve(c, IntTarget, name).err = "ok"

\* What the factory of registration q returns when ResolveNamed on c invokes
\* it in this state: it is given the resolver of the root when q is
\* PerContainer, and the graph of the call, which counts the key once.
Returned(c, q) ==
    CallFactory([instances |-> instances, calls |-> calls],
                track(newDependencyResolverGraph, q.Type, q.Name).g,
                CacheOf(c, q), q)

Rejected(fn, t, lifetime) ==
    IF t.k = "nil" THEN "NilType"
    ELSE IF t.ptr = 0 THEN "RequirePointer"
    ELSE IF fn = NoFn THEN "CreateInstanceFnNil"
    ELSE IF lifetime \notin {PerContainer, PerScope, PerRequest}
         THEN "UnsupportedLifetime"
    ELSE "ok"

\* C18: RegisterNamed returns an error and leaves every registry as it was
\* when the type marker is nil or no pointer, when the factory is nil
\* (CreateInstanceNil) or when the lifetime is none of PerContainer, PerScope
\* and PerRequest (UnsupportedLifetime); with any other arguments it returns
\* no error and the container holds the new registration for (T, N), in place
\* of an earlier one, and its registrations of the other keys as before.  (A
\* register call that changes the state changes ret or numbers a registration.)
C18_RegisterNamedRejects ==
    [][(ret' # ret \/ nextReg' # nextReg) =>
       \A c \in 1..n, fn \in ErrFactoryArgs, t \in ErrTypeArgs, name \in Names,
          lifetime \in ErrLifetimeArgs :
          RegisterNamed(c, fn, t, name, lifetime)
          => IF Rejected(fn, t, lifetime) # "ok"
             THEN /\ ret' = Rejected(fn, t, lifetime)
                  /\ r' = r
                  /\ named' = named
             ELSE /\ ret' = "ok"
                  /\ registryGet(r', named', c, t.typ, name)
                        = Registration(nextReg, t.typ, name, NilHandle, fn, lifetime)
                  /\ \A k \in Keys :
                        k # <<t.typ, name>>
                        => registryGet(r', named', c, k[1], k[2])
                             = registryGet(r, named, c, k[1], k[2])]_vars

\* RegisterNamed has returned UnsupportedLifetime on a container that holds a
\* registration.
C18_Witness ==
    /\ ret = "UnsupportedLifetime"
    /\ \E c \in 1..n, name \in Names : Held(c, name) # NoReg

\* C19: RegisterNamedInstance(v, N) on container c returns an error and
\* changes no registry and no instance cache when v is nil or a nil pointer;
\* else it stores a PerContainer registration for (type of v, N) in the
\* registry of c, changes the registrations of no other container, writes v
\* under the key into the instance cache of the root of c (c when c is the
\* root) and changes no other entry of any cache.
C19_RegisterNamedInstanceFrame ==
    [][(ret' # ret \/ nextReg' # nextReg) =>
       \A c \in 1..n, v \in ErrInstanceArgs, name \in Names :
          LET instance == GetNamedInstance(v)
              k == <<instance.typ, name>>
              root1 == IF root[c] = 0 THEN c ELSE root[c]
          IN  RegisterNamedInstance(c, v, name)
              => IF v.k \in {"nil", "nilptr"}
                 THEN /\ ret' \notin {"", "ok"}
                      /\ r' = r
                      /\ named' = named
                      /\ instances' = instances
                 ELSE /\ ret' = "ok"
                      /\ registryGet(r', named', c, k[1], k[2])
                            = Registration(nextReg, k[1], name, v,
                                           Fn("static", k[1]), PerContainer)
                      /\ \A d \in Containers :
                            d # c => getAll(r', named', d) = getAll(r, named, d)
                      /\ instances'[root1][k] = Inst(k[1], v.val)
                      /\ \A d \in Containers, kk \in Keys :
                            <<d, kk>> # <<root1, k>>
                            => instances'[d][kk] = instances[d][kk]]_vars

\* RegisterNamedInstance has succeeded on a scope: the scope holds the
\* registration, its root holds none for the key, the cache of the root holds
\* the instance and the cache of the scope holds nothing.
C19_Witness ==
    \E c \in 2..n, name \in Names :
        /\ ret = "ok"
        /\ Held(c, name) # NoReg
        /\ Held(c, name).CreateInstanceFn.k = "static"
        /\ Held(root[c], name) = NoReg
        /\ instances[root[c]][<<"int", name>>] = Inst("int", Held(c, name).Value.val)
        /\ instances[c][<<"int", name>>] = Nil

\* ------------------------------------------------------------ goroutines

\* C15: when goroutines call ResolveNamed for one PerContainer or PerScope
\* key on one container, having read the same registration, the factory is
\* invoked by one of them at most and all of them receive the same instance.
C15_SingletonCreatedOnce ==
    \A t1, t2 \in Threads :
        LET s1 == th[t1]
            s2 == th[t2]
        IN  (/\ t1 # t2
             /\ s1.c = s2.c /\ s1.typ = s2.typ /\ s1.name = s2.name
             /\ s1.reg = s2.reg /\ s1.reg # NoReg
             /\ s1.reg.Lifetime \in {PerContainer, PerScope})
            => /\ ~(s1.made /\ s2.made)
               /\ (s1.pc = "done" /\ s2.pc = "done" /\ s1.err = "ok" /\ s2.err = "ok")
                  => s1.inst = s2.inst

\* ------------------------------------------------- Registration.CreateInstance

\* The value the factory of the last direct CreateInstance call returned, for
\* the factories that return one: the payload is 10 * id + the number of the
\* invocation.
LastMade ==
    LET fn == lastCreate.reg.CreateInstanceFn
        val == 10 * lastCreate.reg.id + calls[lastCreate.reg.id]
    IN  IF fn.k = "newptr" THEN Ptr(fn.typ, val) ELSE Val(fn.typ, val)

\* The classification of the last direct CreateInstance call in the order of
\* the code, with nilKind the error for a factory that returns nil, nil.
Classified(nilKind) ==
    LET reg == lastCreate.reg
        fn  == reg.CreateInstanceFn
        is(err, inst) == lastCreate.err = err /\ lastCreate.inst = inst
    IN  IF fn.k = "none" THEN is("CreateInstanceFnNil", Nil)
        ELSE IF fn.k = "fail" THEN is("CreateInstance", Nil)
        ELSE IF fn.k = "nil" THEN is(nilKind, Nil)
        ELSE IF fn.k = "nilptr" THEN is("NilValue", Nil)
        ELSE IF fn.typ = reg.Type THEN is("ok", Inst(fn.typ, LastMade.val))
        ELSE IF reg.Type \notin InterfaceTypes
             THEN is("UnexpectedValueType", Nil)
        ELSE IF <<TypeOf(LastMade), reg.Type>> \notin Implements
             THEN is("InterfaceNotImplemented", Nil)
        ELSE is("ok", Inst(TypeOf(LastMade), LastMade.val))

\* C21 as stated: CreateInstance classifies every factory outcome in this
\* order: no factory gives CreateInstanceFnNil; a factory error gives
\* CreateInstance; a nil or nil-pointer result gives NilValue; a result whose
\* pointer-stripped type equals the declared type succeeds with the stripped
\* value; otherwise a declared type that is not an interface gives
\* UnexpectedValueType; otherwise a result type that does not implement the
\* declared interface gives InterfaceNotImplemented; otherwise it succeeds
\* with the result as returned.
C21_NilResultIsNilValue ==
    lastCreate.reg # NoReg => Classified("NilValue")

\* C21 amended: the same order, but a result of nil (no type information)
\* gives NilType and only a nil pointer gives NilValue.
C21_ClassifiedInOrder ==
    lastCreate.reg # NoReg => Classified("NilType")

\* C21 witness: a factory declared for the interface Reader returned a
\* pointer to a File, and CreateInstance succeeded with the pointer itself;
\* and a factory that returned nil was classified.
C21_Witness ==
    /\ lastCreate.reg.Type = "Reader"
    /\ lastCreate.reg.CreateInstanceFn = Fn("newptr", "File")
    /\ lastCreate.err = "ok"
    /\ lastCreate.inst.typ = PtrTo("File")

\* ------------------------------------------------------- the reserved types

\* Graphs a resolver can hold when a factory resolves through it: a new one,
\* one whose mutex is held, and one with every count at the limit less one.
SomeGraphs ==
    {newDependencyResolverGraph,
     [newDependencyResolverGraph EXCEPT !.locked = TRUE],
     [lookup |-> [k \in Keys |-> RecursionLimit - 1], locked |-> FALSE]}

\* A resolve of the unnamed type typ on the resolver (c, g) gives the resolver
\* or its container, and leaves the caches, the counts of the factories and
\* the graph as they are.
ServedByResolver(c, g, typ) ==
    LET st == [instances |-> instances, calls |-> calls]
        res == resolverResolveNamed(st, g, c, Ptr(typ, 0), "")
    IN  /\ res.err = "ok"
        /\ res.inst = Inst(typ, c)
        /\ res.st = st
        /\ res.g = g

\* A resolve of typ under the name "one" on c is served as any key is: with
\* an instance a registered factory made when the registry of c holds a
\* registration, else by the value the store of c holds, else it is
\* UnresolvedDependency.
ServedByRegistry(c, typ) ==
    LET res == resolve(c, Ptr(typ, 0), "one")
        reg == registryGet(r, named, c, typ, "one")
        own == valuesGet(values, c, typ, "one")
    IN  IF reg # NoReg
        THEN res.err = "ok" /\ MadeBy(res.inst) \in 1..(nextReg - 1)
        ELSE IF own # Nil THEN res.err = "ok" /\ res.inst = own
        ELSE res.err = "UnresolvedDependency"

\* The registration q that c holds for (int, name) has a factory that resolves
\* (int, name) through the Factory it resolved, q serves that resolve too, and
\* no cache that q uses holds an instance for the key.
ViaResolving(c, name, q) ==
    /\ q # NoReg
    /\ q.CreateInstanceFn.k = "via"
    /\ Held(CacheOf(c, q), name) = q
    /\ q.Lifetime # PerRequest => instances[CacheOf(c, q)][<<"int", name>>] = Nil

\* C22: a resolve of the unnamed Container gives the container of the active
\* resolver and a resolve of the unnamed Factory gives the active resolver,
\* whatever the registry and the value stores hold for these types, without
\* a call of track and without a change to any cache; the Factory shares the
\* graph of the resolver (a factory that resolves its own key through it is
\* stopped after RecursionLimit - 1 invocations); under a name the two types
\* are served by the registry and the value store as every other key.
C22_ReservedTypesFirst ==
    \A c \in 1..n :
        /\ \A typ \in ReservedTypes :
              /\ \A g \in SomeGraphs : ServedByResolver(c, g, typ)
              /\ ServedByRegistry(c, typ)
        /\ \A name \in Names :
              LET q == Held(c, name)
                  res == resolve(c, IntTarget, name)
              IN  ViaResolving(c, name, q)
                  => /\ InnermostCause(res) = "ResolveInfiniteRecursion"
                     /\ res.st.calls = [calls EXCEPT ![q.id] = @ + RecursionLimit - 1]

\* C22 witness: a container holds a registration and a value for the unnamed
\* Container, and a ResolveNamed of it on the container gives the container.
C22_Witness ==
    \E c \in 1..n :
        /\ registryGet(r, named, c, typeContainer, "") # NoReg
        /\ valuesGet(values, c, typeContainer, "") # Nil
        /\ resolve(c, Ptr(typeContainer, 0), "").inst = Inst(typeContainer, c)

\* ------------------------------------------------------------------ Resolve

\* The caches and counts before target i of Resolve(c, vs...) when every
\* target before it is resolved in the order of the arguments, each by a
\* ResolveNamed of its own.
RECURSIVE Before(_, _, _)
Before(c, vs, i) ==
    IF i = 1 THEN [instances |-> instances, calls |-> calls]
    ELSE resolverResolveNamed(Before(c, vs, i - 1), newDependencyResolverGraph,
                              c, vs[i - 1], "").st

\* The ResolveNamed of target i in that order.
Single(c, vs, i) ==
    resolverResolveNamed(Before(c, vs, i), newDependencyResolverGraph, c, vs[i], "")

\* The targets whose ResolveNamed fails in that order.
Failing(c, vs) == {i \in 1..Len(vs) : Single(c, vs, i).err # "ok"}

\* Resolve with result res made an attempt at the first m targets and at no
\* other, and the first k of them are set to their instances.
Attempted(c, vs, m, k, res) ==
    /\ Len(res.set) = k
    /\ \A i \in 1..k : res.set[i] = Single(c, vs, i).inst
    /\ res.st = Before(c, vs, m + 1)

\* C23: Resolve(factory, t1, ..., tn) resolves the targets in the order of
\* the arguments and stops at the first error: it returns that error, makes
\* no attempt at the targets after it (no factory runs and no cache changes
\* for them), leaves the targets before it set, and returns nil exactly when
\* every target was resolved.
C23_ResolveStopsAtFirstError ==
    \A c \in 1..n, vs \in ResolveTargetSeqs :
        LET res == resolveEach(c, vs)
            bad == Failing(c, vs)
        IN  IF bad = {}
            THEN res.err = "ok" /\ Attempted(c, vs, Len(vs), Len(vs), res)
            ELSE LET f == CHOOSE i \in bad : \A j \in bad : i <= j
                 IN  /\ res.err = Single(c, vs, f).err
                     /\ res.err # "ok"
                     /\ Attempted(c, vs, f, f - 1, res)

\* C23 witness: a Resolve of two targets on a container whose factory for the
\* unnamed int has run fills the first and fails on the second, and one whose
\* first target fails leaves a PerRequest factory of the second uncalled.
C23_Witness ==
    \E c \in 1..n :
        LET q == Held(c, "")
            res == resolveEach(c, <<IntTarget, Val("int", 1)>>)
            rev == resolveEach(c, <<Val("int", 1), IntTarget>>)
        IN  /\ q # NoReg
            /\ q.Lifetime = PerRequest
            /\ calls[q.id] > 0
            /\ res.err = "RequirePointer"
            /\ Len(res.set) = 1
            /\ res.st.calls[q.id] = calls[q.id] + 1
            /\ rev.err = "RequirePointer"
            /\ rev.st.calls = calls

\* -------------------------------------------------- GetNamed on a Container

\* C24: on a scope derived from a container on which (T, N) was registered,
\* GetNamed(T, N) on the scope returns no error and gives the instance the
\* registration supplies, as ResolveNamed does.
C24_GetSeesRegistered ==
    [][\A c \in 2..n, name \in Names :
          (/\ GetNamed(c, IntTarget, name)
           /\ Held(c, name) # NoReg
           /\ objs[Held(c, name).id].at # c)
          => /\ got'.err = "ok"
             /\ SuppliedBy(Held(c, name),
                            [err |-> got'.err, inst |-> Inst("int", got'.val)])]_vars

\* -------------------------------------------------------------------- track

\* C25: a call of track that returns gives true exactly when the count of
\* its key after the increment is less than RecursionLimit, the first call on
\* a key included and for every RecursionLimit of 1 or more, and every count
\* the graph stores is below RecursionLimit.
C25_TrackBelowLimit ==
    [][\A typ \in Types, name \in Names :
          (Track(typ, name) /\ ~dg'.blocked)
          => /\ dg'.ok <=> (dg.g.lookup[<<typ, name>>] + 1 < dg.limit)
             /\ \A k \in Keys : dg'.g.lookup[k] < dg'.limit]_vars

\* C26: whenever a call of track has returned, with true or with false, the
\* mutex of the graph is unlocked.
C26_TrackUnlocks ==
    (dg.key # <<"", "">> /\ ~dg.blocked) => ~dg.g.locked

\* --------------------------------------------- PerContainer factories, nested

\* The PerContainer registration q that scope c holds for (typ, "one") has a
\* factory that resolves the unnamed key of typ, and the cache of the root
\* holds no instance for (typ, "one"): a ResolveNamed on c runs the factory.
RunsOnRoot(c, typ, q) ==
    /\ root[c] # 0
    /\ q # NoReg
    /\ q.Lifetime = PerContainer
    /\ q.CreateInstanceFn.k = "dep"
    /\ instances[root[c]][<<typ, "one">>] = Nil

\* The result res of such a ResolveNamed is what the nested resolve of the
\* unnamed key of typ gives when the root alone serves it: the root for the
\* Container; else an instance made by the factory the registry of the root
\* holds, else the value the store of the root holds, else the error
\* UnresolvedDependency, wrapped.
ServedByRoot(c, typ, res) ==
    LET rq == registryGet(r, named, root[c], typ, "")
        own == valuesGet(values, root[c], typ, "")
    IN  IF typ = typeContainer THEN res.err = "ok" /\ res.inst = Inst(typ, root[c])
        ELSE IF rq # NoReg THEN res.err = "ok" /\ MadeBy(res.inst) = rq.id
        ELSE IF own # Nil THEN res.err = "ok" /\ res.inst = own
        ELSE res.err = "CreateInstance" /\ res.inner = <<"UnresolvedDependency">>

\* C27: while a PerContainer factory runs for a ResolveNamed issued on a
\* scope, the resolves it makes through its resolver are served by the root
\* alone, by its registry, its value store and its instance cache: a key
\* registered or set on the scope only is UnresolvedDependency inside the
\* factory, the unnamed Container is the root, and no cache but the root's
\* changes.
C27_FactoryRunsOnRoot ==
    \A c \in 2..n, typ \in {"int", typeContainer} :
        LET q == registryGet(r, named, c, typ, "one")
            res == resolve(c, Ptr(typ, 0), "one")
        IN  RunsOnRoot(c, typ, q)
            => /\ ServedByRoot(c, typ, res)
               /\ \A d \in 2..n : res.st.instances[d] = instances[d]

\* C27 witness: a scope holds a PerContainer factory for (int, "one") and a
\* value or a registration for the unnamed int that the root does not hold,
\* and the ResolveNamed of (int, "one") on the scope fails.
C27_Witness ==
    \E c \in 2..n :
        /\ RunsOnRoot(c, "int", Held(c, "one"))
        /\ Held(c, "") # NoReg \/ valuesGet(values, c, "int", "") # Nil
        /\ Held(root[c], "") = NoReg
        /\ valuesGet(values, root[c], "int", "") = Nil
        /\ resolve(c, IntTarget, "one").inner = <<"UnresolvedDependency">>

\* ------------------------------------------------- one graph per external call

\* The counts of a graph that counted (int, name) m times and no other key.
Counted(name, m) == [k \in Keys |-> IF k = <<"int", name>> THEN m ELSE 0]

\* The result res of a ResolveNamed(int, name) in a state with factory counts
\* before, on a container whose registration q resolves its own key: every
\* nested resolve was counted on the one graph of the call, which started
\* empty, so the factory ran RecursionLimit - 1 times and the graph holds
\* that count for the key and none for another.
CountedOnOneGraph(name, q, before, res) ==
    /\ res.g.lookup = Counted(name, RecursionLimit - 1)
    /\ res.st.calls = [before EXCEPT ![q.id] = @ + RecursionLimit - 1]

\* C28: the nested resolves of one external ResolveNamed, those served by the
\* resolver of the root for a PerContainer key included, are counted on one
\* graph, and every external ResolveNamed starts with an empty graph: a
\* second call, on the same container or on another one that holds the same
\* registration, counts from nothing again.
C28_OneGraphPerCall ==
    \A c \in 1..n, name \in Names :
        LET q == Held(c, name)
            res == resolve(c, IntTarget, name)
        IN  SelfResolving(c, name, q)
            => /\ CountedOnOneGraph(name, q, calls, res)
               /\ \A d \in 1..n :
                     (Held(d, name) = q /\ SelfResolving(d, name, q))
                     => CountedOnOneGraph(name, q, res.st.calls,
                                          Retry(d, name, res))

\* C28 witness: a scope holds a PerContainer registration whose factory
\* resolves its own key, external calls have run the factory, and the graph
\* of a further call on the scope ends with RecursionLimit - 1 for the key.
C28_Witness ==
    \E c \in 2..n, name \in Names :
        LET q == Held(c, name)
        IN  /\ SelfResolving(c, name, q)
            /\ q.Lifetime = PerContainer
            /\ calls[q.id] >= RecursionLimit - 1
            /\ resolve(c, IntTarget, name).g.lookup[<<"int", name>>]
                   = RecursionLimit - 1

\* ------------------------------------------------------- cached singletons

\* The PerContainer or PerScope registration q that c holds for (int, name)
\* has its instance in the cache it uses.
Cached(c, name, q) ==
    /\ q # NoReg
    /\ q.Lifetime \in {PerContainer, PerScope}
    /\ instances[CacheOf(c, q)][<<"int", name>>] # Nil

\* A resolve of (int, name) on the resolver of c after the one with result
\* res, in the caches and on the graph that one left.
resolvedAfter(c, name, res) ==
    IF res.err # "ok" THEN res
    ELSE resolverResolveNamed(res.st, res.g, c, IntTarget, name)

\* The result of the last of m resolves of (int, name) in a row on the
\* resolver (c, g), each in the caches and on the graph the one before left.
RECURSIVE ResolvedTimes(_, _, _, _)
ResolvedTimes(c, name, g, m) ==
    IF m = 0
    THEN [st |-> [instances |-> instances, calls |-> calls], g |-> g,
          err |-> "ok", inner |-> <<>>, inst |-> Nil]
    ELSE resolvedAfter(c, name, ResolvedTimes(c, name, g, m - 1))

\* C29: a resolve of a PerContainer or PerScope key whose instance is in the
\* cache gives the cached instance before track is called: on any graph,
\* also one whose counts are at the limit or whose mutex is held, it leaves
\* the graph, the caches and the factory counts as they are, so the resolver
\* of one external call serves the key RecursionLimit + 1 times in a row
\* without InfiniteRecursion.
C29_CachedBeforeCounting ==
    \A c \in 1..n, name \in Names :
        LET q == Held(c, name)
            st == [instances |-> instances, calls |-> calls]
            hit(g, res) ==
                /\ res.err = "ok"
                /\ res.inst = instances[CacheOf(c, q)][<<"int", name>>]
                /\ res.g = g
                /\ res.st = st
        IN  Cached(c, name, q)
            => /\ \A g \in SomeGraphs :
                     hit(g, resolverResolveNamed(st, g, c, IntTarget, name))
               /\ hit(newDependencyResolverGraph,
                      ResolvedTimes(c, name, newDependencyResolverGraph,
                                    RecursionLimit + 1))

\* C29 witness: a ResolveNamed has run the factory of a PerScope registration
\* on a scope once, and the instance is in the cache of the scope.
C29_Witness ==
    \E c \in 2..n, name \in Names :
        LET q == Held(c, name)
        IN  /\ Cached(c, name, q)
            /\ q.Lifetime = PerScope
            /\ calls[q.id] = 1
            /\ MadeBy(instances[c][<<"int", name>>]) = q.id

\* --------------------------------------------------------- the container tree

\* C30: in every tree built by NewContainer and Scope, the container made by
\* NewContainer is the one without a root reference, every container derived
\* from it, at any depth, has that container as its root and never a scope
\* in between, and the parent of its value store is the store of the
\* container Scope was called on; no other call changes a root or a parent.
C30_RootIsOriginal ==
    [][/\ root'[1] = 0 /\ parent'[1] = 0
       /\ \A d \in 2..n' : root'[d] = 1
       /\ \A d \in 1..n : root'[d] = root[d] /\ parent'[d] = parent[d]
       /\ \A c \in 1..n : Scope(c) => (n' = n + 1 /\ parent'[n'] = c)
       /\ n' # n => \E c \in 1..n : Scope(c)]_vars

\* C30 witness: a scope of a scope: its root is the container NewContainer
\* made, the parent of its store is the store of the scope it was made from.
C30_Witness ==
    \E d \in 3..n : parent[d] \in 2..n /\ root[d] = 1 /\ root[parent[d]] = 1

\* ------------------------------------------------------------- ownership

\* The step leaves the registry of container d as it is: the outer map and
\* every inner map it holds.
RegistryKept(d) ==
    /\ r'[d] = r[d]
    /\ \A typ \in Types : r[d][typ] # NoMap => named'[r[d][typ]] = named[r[d][typ]]

\* C31: Scope() on c leaves the registry, the value store and the instance
\* cache of c and of every other existing container as they were, and the
\* new scope starts with an empty local value store and an empty instance
\* cache: no instance cached on the parent is cached on the child.
C31_ScopeKeepsParent ==
    [][\A c \in 1..n :
          Scope(c)
          => /\ \A d \in 1..n :
                   /\ RegistryKept(d)
                   /\ values'[d] = values[d]
                   /\ instances'[d] = instances[d]
             /\ \A k \in Keys : values'[n'][k] = Nil /\ instances'[n'][k] = Nil]_vars

\* C31 witness: a scope was made from a container that holds a PerScope
\* registration with its instance cached, and the cache of the scope has no
\* entry for the key.
C31_Witness ==
    \E d \in 2..n, name \in Names :
        LET q == Held(parent[d], name)
        IN  /\ q # NoReg
            /\ q.Lifetime = PerScope
            /\ Held(d, name) = q
            /\ instances[parent[d]][<<"int", name>>] # Nil
            /\ instances[d][<<"int", name>>] = Nil

\* The step is a call of an operation on container c.
OnContainer(c) ==
    \/ Scope(c)
    \/ \E fn \in OwnFactoryArgs, t \in TypeArgs, name \in Names,
          lifetime \in LifetimeArgs : RegisterNamed(c, fn, t, name, lifetime)
    \/ \E v \in InstanceArgs, name \in Names : RegisterNamedInstance(c, v, name)
    \/ \E v \in InstanceArgs, name \in Names : SetNamed(c, v, name)
    \/ \E v \in TargetArgs, name \in Names : ResolveNamed(c, v, name)

\* The step leaves the registry and the value store of every container but c
\* as they are, and the instance cache of every container that is not in
\* writers.
Owned(c, writers) ==
    \A d \in 1..n :
        /\ d # c => RegistryKept(d) /\ values'[d] = values[d]
        /\ d \notin writers => instances'[d] = instances[d]

\* C32 as stated: no operation invoked on a container c (RegisterNamed,
\* RegisterNamedInstance, SetNamed, ResolveNamed, Scope) changes the
\* registry, the value store or the instance cache of a container other
\* than c.
C32_OnlyOwnerWrites ==
    [][\A c \in 1..n : OnContainer(c) => Owned(c, {c})]_vars

\* C32 amended: no such operation changes the registry or the value store of
\* a container other than c, nor the instance cache of a container other
\* than c and the root of c.
C32_OwnerOrRootWrites ==
    [][\A c \in 1..n : OnContainer(c) => Owned(c, {c, root[c]})]_vars

\* C32 witness: operations on a scope have written its registry, its value
\* store or its cache, and the cache of its root.
C32_Witness ==
    \E c \in 2..n, name \in Names :
        /\ Held(c, name) # NoReg
        /\ objs[Held(c, name).id].at = c
        /\ Held(root[c], name) = NoReg
        /\ instances[root[c]][<<"int", name>>] # Nil

\* ------------------------------------------ RecursionLimit, set in flight

DefensiveErrors == {"UnsupportedLifetime", "CreateInstanceFnNil"}

\* C35: every registration a registry holds, stored by RegisterNamed or
\* RegisterNamedInstance or inherited through Scope, has one of the three
\* lifetimes, a factory that is not nil, and the Type and Name of the key it
\* is stored under; no ResolveNamed fails with UnsupportedLifetime or
\* CreateInstanceFnNil, at any depth of its error.
C35_StoredRegistrationsValid ==
    \A c \in 1..n, k \in Keys :
        LET q == registryGet(r, named, c, k[1], k[2])
        IN  /\ q # NoReg
               => /\ q.Lifetime \in {PerContainer, PerScope, PerRequest}
                  /\ q.CreateInstanceFn # NoFn
                  /\ q.Type = k[1] /\ q.Name = k[2]
            /\ \A v \in TargetArgs :
                  LET res == resolve(c, v, k[2])
                  IN  /\ res.err \notin DefensiveErrors
                      /\ \A i \in 1..Len(res.inner) : res.inner[i] \notin DefensiveErrors

\* C35 witness: a register call was rejected for its lifetime or its nil
\* factory while a scope holds a registration it inherited.
C35_Witness ==
    /\ ret \in DefensiveErrors
    /\ \E c \in 2..n, name \in Names :
          /\ Held(c, name) # NoReg
          /\ objs[Held(c, name).id].at # c

\* ------------------------------------------- repeated requests of one key

\* The error res is ResolveInfiniteRecursion, or has it in its chain.
RecursionError(res) ==
    \/ res.err = "ResolveInfiniteRecursion"
    \/ \E i \in 1..Len(res.inner) : res.inner[i] = "ResolveInfiniteRecursion"

\* A resolve of (int, name) on the root re-enters a key whose factory is
\* still running: the factory of the key resolves the key itself, or it
\* resolves the key of the other name and the factory of that one resolves
\* a key again.
Cyclic(name) ==
    LET q == Held(1, name)
        o == Held(1, Other(name))
    IN  /\ q # NoReg
        /\ \/ q.CreateInstanceFn.k = "self"
           \/ /\ q.CreateInstanceFn.k = "repeat"
              /\ o # NoReg
              /\ o.CreateInstanceFn.k \in {"self", "repeat"}

\* C36: a ResolveNamed fails with ResolveInfiniteRecursion only when its
\* resolution re-enters a key whose factory is still running; a factory that
\* requests a PerRequest key without a cycle RecursionLimit times, each
\* request returning before the next, gets no such error.
C36_RecursionErrorOnlyOnCycle ==
    \A name \in Names :
        RecursionError(resolve(1, IntTarget, name)) => Cyclic(name)

\* ------------------------------------------- PerScope keys, materialized

\* The step is a ResolveNamed on c that finds the PerScope registration q
\* under (int, name) and no instance in the cache of c, invokes the factory
\* and returns its instance.
MaterializesPerScope(c, name, q) ==
    /\ ResolveNamed(c, IntTarget, name)
    /\ q # NoReg
    /\ q.Lifetime = PerScope
    /\ instances[c][<<"int", name>>] = Nil
    /\ calls'[q.id] = calls[q.id] + 1
    /\ resolve(c, IntTarget, name).err = "ok"

\* C38: a ResolveNamed that materializes a PerScope key on c stores the
\* instance in the cache of c and leaves the entry of the key in the cache of
\* every other container, root, ancestor, sibling or descendant, as it is,
\* and every registry and value store; when the factory resolves nothing
\* itself, no other cache changes at all.
C38_PerScopeWritesOwnCache ==
    [][\A c \in 1..n, name \in Names :
          MaterializesPerScope(c, name, Held(c, name))
          => \A d \in 1..n :
                /\ instances'[c][<<"int", name>>] # Nil
                /\ RegistryKept(d)
                /\ values'[d] = values[d]
                /\ d # c => instances'[d][<<"int", name>>] = instances[d][<<"int", name>>]
                /\ (d # c /\ Held(c, name).CreateInstanceFn.k = "new")
                      => instances'[d] = instances[d]]_vars

\* C38 witness: a scope has materialized a PerScope key in its cache, the
\* cache of its root has no entry for the key.
C38_Witness ==
    \E c \in 2..n, name \in Names :
        /\ Held(c, name) # NoReg
        /\ Held(c, name).Lifetime = PerScope
        /\ instances[c][<<"int", name>>] # Nil
        /\ MadeBy(instances[c][<<"int", name>>]) = Held(c, name).id
        /\ instances[root[c]][<<"int", name>>] = Nil

\* -------------------------------------------------------------------- locks

\* The locks of registries, value stores and instance caches the goroutine
\* holds.
StoreLocks == {h \in run.held : h.kind # "g"}

\* A factory is running: a resolver is about to invoke it, or waits for it.
FactoryRuns == \E i \in 1..Len(run.stack) : run.stack[i].pc \in {"factory", "called"}

\* C33: the goroutine holds a lock of a registry, a value store or an
\* instance cache only inside the one map access of its innermost call, so
\* none while a resolver invokes a factory; and the lock of that kind a call
\* takes next, in a factory or not, is never one the goroutine holds in a
\* mode that makes it wait.
C33_NoStoreLockAcrossFactory ==
    /\ StoreLocks \subseteq
          (IF run.stack # <<>> /\ top.in THEN {wants(top)} ELSE {})
    /\ (run.stack # <<>> /\ top.pc = "factory") => StoreLocks = {}
    /\ (run.stack # <<>> /\ ~top.in /\ wants(top).kind \in {"r", "values", "instances"})
          => Free(wants(top))

\* C33 witness: a factory of a registration of the scope has called
\* RegisterNamedInstance, which is inside the Lock of the instance cache of
\* the root.
C33_Witness ==
    /\ FactoryRuns
    /\ Len(run.stack) >= 2
    /\ top.op = "RegisterNamedInstance"
    /\ top.pc = "cache"
    /\ top.in
    /\ run.stack[Len(run.stack) - 1].reg.Lifetime = PerScope
    /\ root[top.c] # 0

\* C39: the goroutine never holds two locks at once, of registries, value
\* stores, instance caches and graphs.
C39_OneLockAtATime == Cardinality(run.held) <= 1

\* C37: an instance that is in an instance cache stays there, whatever the
\* one goroutine does, a factory that resolves its own key included, until
\* a RegisterNamedInstance writes the entry.
C37_CacheEntryKept ==
    [][\A c \in 1..n, k \in Keys :
          (instances[c][k] # Nil /\ instances'[c][k] # instances[c][k])
          => top.op = "RegisterNamedInstance"]_vars

====
